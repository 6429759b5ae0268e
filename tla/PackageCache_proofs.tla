------------------------ MODULE PackageCache_proofs ------------------------
(***************************************************************************)
(* For any number of goroutines, files and uploads: the double-checked     *)
(* lock of ensurePackageCached admits one downloader per file, makes a     *)
(* cached package immutable and never renames a short body.                *)
(***************************************************************************)
EXTENDS PackageCache, SequenceTheorems, TLAPS

\* Whoever is between Lock and Unlock is the only holder of its file's lock.
LockInv == \A t \in Threads : pc[t] \in Locked => holder[file[t]] = {t}

\* Past the second Stat the cache is still empty: nobody else can fill it.
MissInv == \A t \in Threads : pc[t] \in Filling => cache[file[t]] = <<>>

\* The tmp file holds what this goroutine has read so far, and nothing else.
TmpInv ==
    \A t \in Threads :
        /\ pc[t] = "copy"   => Len(tmp[file[t]]) = resp[t].pos /\ resp[t].pos <= resp[t].size
        /\ pc[t] = "rename" => Len(tmp[file[t]]) = resp[t].size
        /\ pc[t] = "create" => resp[t].pos = 0
        /\ pc[t] \in {"create", "copy"} => resp[t].inode \in Inodes

IInv == TypeOK /\ LockInv /\ MissInv /\ TmpInv

\* Writing a chunk to a file yields a file: storage.LocalProvider.Save's io.Copy.
LEMMA WrittenType ==
    ASSUME NEW c \in Content, NEW i \in Nat \ {0}, NEW v \in 0..MaxUploads
    PROVE  Written(c, i, v) \in Content
<1> DEFINE n == IF i > Len(c) THEN i ELSE Len(c)
<1>1. Len(c) \in Nat
  BY DEF Content
<1>2. n \in Nat
  BY <1>1
<1>3. \A j \in 1..n : (IF j = i THEN v ELSE IF j <= Len(c) THEN c[j] ELSE 0) \in 0..MaxUploads
  <2> TAKE j \in 1..n
  <2>1. CASE j = i
    BY <2>1
  <2>2. CASE j # i /\ j <= Len(c)
    <3>1. j \in 1..Len(c)
      BY <2>2, <1>1, <1>2
    <3>2. c[j] \in 0..MaxUploads
      BY <3>1, ElementOfSeq DEF Content
    <3> QED BY <2>2, <3>2
  <2>3. CASE j # i /\ ~(j <= Len(c))
    BY <2>3, SizesAssumption
  <2> QED BY <2>1, <2>2, <2>3
<1>4. Written(c, i, v) \in [1..n -> 0..MaxUploads]
  BY <1>3 DEF Written
<1>5. \E m \in Nat : Written(c, i, v) \in [1..m -> 0..MaxUploads]
  BY <1>2, <1>4
<1> HIDE DEF n
<1> QED BY <1>5, SeqDef DEF Content

\* A download whose inode is written to keeps the type of its response record.
LEMMA DisturbType ==
    ASSUME TypeOK, NEW n \in Inodes, Disturb(n)
    PROVE  /\ resp' \in [Threads -> [inode : {0} \cup Inodes, size : Nat, pos : Nat, clean : BOOLEAN]]
           /\ \A t \in Threads : /\ resp'[t].inode = resp[t].inode
                                 /\ resp'[t].size = resp[t].size
                                 /\ resp'[t].pos = resp[t].pos
BY DEF TypeOK, Disturb

\* TypeOK is not inductive alone: a response being read must have an inode.
LEMMA TypeStep == ASSUME IInv, [Next]_vars PROVE TypeOK'
<1> USE SizesAssumption DEF TypeOK, Content, masterVars, workerVars, Locked, Goto, Unlock, NoResp
<1> SUFFICES ASSUME Next PROVE TypeOK'
  BY DEF IInv, vars
<1>1. ASSUME NEW u \in Uploads, SaveChunk(u) PROVE TypeOK'
  <2>1. CASE upload[u].inode \in Inodes
    <3>1. resp' \in [Threads -> [inode : {0} \cup Inodes, size : Nat, pos : Nat, clean : BOOLEAN]]
      BY <1>1, <2>1, DisturbType DEF SaveChunk, IInv
    <3>2. /\ disk[upload[u].inode] \in Content
          /\ upload[u].pos + 1 \in Nat \ {0}
          /\ u \in 0..MaxUploads
      BY <2>1 DEF IInv, Uploads
    <3>3. Written(disk[upload[u].inode], upload[u].pos + 1, u) \in Content
      BY <3>2, WrittenType
    <3>4. disk' \in [Inodes -> Content]
      BY <1>1, <3>3 DEF SaveChunk, IInv
    <3>5. upload' \in [Uploads -> [state : {"todo", "copying", "ended"},
                                   inode : {0} \cup Inodes, pos : 0..Chunks]]
      BY <1>1 DEF SaveChunk, IInv
    <3> QED BY <1>1, <3>1, <3>4, <3>5 DEF SaveChunk, IInv
  <2>2. CASE upload[u].inode \notin Inodes
    <3>1. disk' = disk
      BY <1>1, <2>2 DEF SaveChunk, IInv
    <3>2. resp' \in [Threads -> [inode : {0} \cup Inodes, size : Nat, pos : Nat, clean : BOOLEAN]]
      BY <1>1 DEF SaveChunk, Disturb, IInv
    <3>3. upload' \in [Uploads -> [state : {"todo", "copying", "ended"},
                                   inode : {0} \cup Inodes, pos : 0..Chunks]]
      BY <1>1 DEF SaveChunk, IInv
    <3> QED BY <1>1, <3>1, <3>2, <3>3 DEF SaveChunk, IInv
  <2> QED BY <2>1, <2>2
<1>2. ASSUME NEW u \in Uploads, SaveEnd(u) PROVE TypeOK'
  BY <1>2 DEF SaveEnd, IInv
<1>3. ASSUME NEW u \in Uploads, NEW f \in Files, SaveOpen(u, f) PROVE TypeOK'
  <2> DEFINE n == IF dir[f] = 0 THEN u ELSE dir[f]
  <2>1. n \in Inodes
    BY DEF IInv, Inodes, Uploads
  <2>2. resp' \in [Threads -> [inode : {0} \cup Inodes, size : Nat, pos : Nat, clean : BOOLEAN]]
    BY <1>3, <2>1, DisturbType DEF SaveOpen, IInv
  <2>3. disk' \in [Inodes -> Content]
    BY <1>3, <2>1 DEF SaveOpen, IInv
  <2>4. upload' \in [Uploads -> [state : {"todo", "copying", "ended"},
                                 inode : {0} \cup Inodes, pos : 0..Chunks]]
    BY <1>3, <2>1 DEF SaveOpen, IInv
  <2>5. dir' \in [Files -> {0} \cup Inodes]
    BY <1>3, <2>1 DEF SaveOpen, IInv
  <2> QED BY <1>3, <2>2, <2>3, <2>4, <2>5 DEF SaveOpen, IInv
<1>4. ASSUME NEW f \in Files, DeletePackage(f) PROVE TypeOK'
  BY <1>4 DEF DeletePackage, IInv
<1>5. ASSUME NEW t \in Threads, NEW f \in Files, Call(t, f) PROVE TypeOK'
  BY <1>5 DEF Call, IInv
<1>6. ASSUME NEW t \in Threads, Stat(t) PROVE TypeOK'
  BY <1>6 DEF Stat, IInv
<1>7. ASSUME NEW t \in Threads, Lock(t) PROVE TypeOK'
  BY <1>7 DEF Lock, IInv
<1>8. ASSUME NEW t \in Threads, Restat(t) PROVE TypeOK'
  <2>1. pc' \in [Threads -> {"idle", "stat", "lock", "cached"} \cup Locked]
    <3>1. CASE pc' = [pc EXCEPT ![t] = "cached"]
      BY <3>1 DEF IInv
    <3>2. CASE pc' = [pc EXCEPT ![t] = "get"]
      BY <3>2 DEF IInv
    <3> QED BY <1>8, <3>1, <3>2 DEF Restat
  <2>2. holder' \in [Files -> SUBSET Threads]
    <3>1. CASE Unlock(t)
      BY <3>1 DEF IInv
    <3>2. CASE UNCHANGED holder
      BY <3>2 DEF IInv
    <3> QED BY <1>8, <3>1, <3>2 DEF Restat
  <2> QED BY <1>8, <2>1, <2>2 DEF Restat, IInv
<1>9. ASSUME NEW t \in Threads, HttpGet(t) PROVE TypeOK'
  <2>1. dir[file[t]] \in Inodes
    BY <1>9 DEF HttpGet, IInv
  <2>2. Len(disk[dir[file[t]]]) \in Nat
    BY <2>1 DEF IInv
  <2>3. IsWhole(disk[dir[file[t]]]) \in BOOLEAN
    BY DEF IsWhole
  <2>4. resp' \in [Threads -> [inode : {0} \cup Inodes, size : Nat, pos : Nat, clean : BOOLEAN]]
    BY <1>9, <2>1, <2>2, <2>3 DEF HttpGet, IInv
  <2> QED BY <1>9, <2>4 DEF HttpGet, IInv
<1>10. ASSUME NEW t \in Threads, CreateTmp(t) PROVE TypeOK'
  BY <1>10 DEF CreateTmp, IInv
<1>11. ASSUME NEW t \in Threads, CopyChunk(t) PROVE TypeOK'
  <2>1. resp[t].inode \in Inodes
    BY <1>11 DEF CopyChunk, IInv, TmpInv
  <2>2. disk[resp[t].inode][resp[t].pos + 1] \in 0..MaxUploads
    <3>1. resp[t].pos + 1 \in 1..Len(disk[resp[t].inode])
      BY <1>11, <2>1 DEF CopyChunk, IInv
    <3> QED BY <2>1, <3>1 DEF IInv
  <2>3. tmp' \in [Files -> Content]
    <3>1. tmp[file[t]] \in Seq(0..MaxUploads)
      BY DEF IInv
    <3>2. Append(tmp[file[t]], disk[resp[t].inode][resp[t].pos + 1]) \in Seq(0..MaxUploads)
      BY <2>2, <3>1, AppendProperties
    <3> DEFINE c == Append(tmp[file[t]], disk[resp[t].inode][resp[t].pos + 1])
    <3>3. tmp' = [tmp EXCEPT ![file[t]] = c]
      BY <1>11 DEF CopyChunk
    <3>4. tmp \in [Files -> Seq(0..MaxUploads)] /\ c \in Seq(0..MaxUploads)
      BY <3>2 DEF IInv
    <3> HIDE DEF c
    <3> QED BY <3>3, <3>4
  <2>4. resp' \in [Threads -> [inode : {0} \cup Inodes, size : Nat, pos : Nat, clean : BOOLEAN]]
    <3>1. resp' = [resp EXCEPT ![t].pos = @ + 1]
      BY <1>11 DEF CopyChunk
    <3>2. resp \in [Threads -> [inode : {0} \cup Inodes, size : Nat, pos : Nat, clean : BOOLEAN]]
      BY DEF IInv
    <3> QED BY <3>1, <3>2
  <2> QED BY <1>11, <2>3, <2>4 DEF CopyChunk, IInv
<1>12. ASSUME NEW t \in Threads, CopyDone(t) PROVE TypeOK'
  BY <1>12 DEF CopyDone, IInv
<1>13. ASSUME NEW t \in Threads, CopyFail(t) PROVE TypeOK'
  BY <1>13 DEF CopyFail, IInv
<1>14. ASSUME NEW t \in Threads, Rename(t) PROVE TypeOK'
  BY <1>14 DEF Rename, IInv
<1>15. ASSUME NEW t \in Threads, Fail(t) PROVE TypeOK'
  BY <1>15 DEF Fail, IInv
<1>16. ASSUME NEW t \in Threads, Extracted(t) PROVE TypeOK'
  BY <1>16 DEF Extracted, IInv
<1>17. CASE Crash
  BY <1>17 DEF Crash, IInv
<1> QED
  BY <1>1, <1>2, <1>3, <1>4, <1>5, <1>6, <1>7, <1>8, <1>9, <1>10, <1>11, <1>12, <1>13,
     <1>14, <1>15, <1>16, <1>17 DEF Next, Step

-----------------------------------------------------------------------------
\* The mutex: a goroutine only enters an empty critical section, and every
\* return inside it leaves it.
LEMMA LockStep == ASSUME IInv, [Next]_vars PROVE LockInv'
<1> USE DEF LockInv, TypeOK, Locked, Goto, Unlock
<1> SUFFICES ASSUME Next PROVE LockInv'
  BY DEF IInv, vars
<1>1. ASSUME UNCHANGED <<holder, pc, file>> PROVE LockInv'
  BY <1>1 DEF IInv
<1>2. ASSUME NEW u \in Uploads, SaveChunk(u) \/ SaveEnd(u) PROVE LockInv'
  BY <1>1, <1>2 DEF SaveChunk, SaveEnd, workerVars
<1>3. ASSUME NEW u \in Uploads, NEW f \in Files, SaveOpen(u, f) PROVE LockInv'
  BY <1>1, <1>3 DEF SaveOpen
<1>4. ASSUME NEW f \in Files, DeletePackage(f) PROVE LockInv'
  BY <1>1, <1>4 DEF DeletePackage, workerVars
<1>5. ASSUME NEW t \in Threads, NEW f \in Files, Call(t, f) PROVE LockInv'
  BY <1>5 DEF Call, IInv
<1>6. ASSUME NEW t \in Threads, Stat(t) PROVE LockInv'
  BY <1>6 DEF Stat, IInv
<1>7. ASSUME NEW t \in Threads, Lock(t) PROVE LockInv'
  BY <1>7 DEF Lock, IInv
<1>0. ASSUME NEW t \in Threads, NEW label, label \notin Locked,
             pc[t] \in Locked, Goto(t, label), Unlock(t), UNCHANGED file
      PROVE  LockInv'
  <2> SUFFICES ASSUME NEW s \in Threads, pc'[s] \in Locked PROVE holder'[file'[s]] = {s}
    OBVIOUS
  <2>1. s # t /\ pc[s] \in Locked
    BY <1>0 DEF IInv
  <2>2. holder[file[s]] = {s} /\ holder[file[t]] = {t}
    BY <1>0, <2>1 DEF IInv
  <2>3. file[s] # file[t]
    BY <2>1, <2>2
  <2> QED BY <1>0, <2>2, <2>3 DEF IInv
<1>8. ASSUME NEW t \in Threads, Restat(t) PROVE LockInv'
  <2>1. CASE cache[file[t]] # <<>>
    BY <1>0, <1>8, <2>1 DEF Restat
  <2>2. CASE cache[file[t]] = <<>>
    BY <1>8, <2>2 DEF Restat, IInv
  <2> QED BY <2>1, <2>2
<1>9. ASSUME NEW t \in Threads, HttpGet(t) \/ CreateTmp(t) \/ CopyDone(t) PROVE LockInv'
  BY <1>9 DEF HttpGet, CreateTmp, CopyDone, IInv
<1>10. ASSUME NEW t \in Threads, CopyChunk(t) PROVE LockInv'
  BY <1>1, <1>10 DEF CopyChunk
<1>11. ASSUME NEW t \in Threads, CopyFail(t) \/ Rename(t) \/ Fail(t) PROVE LockInv'
  BY <1>0, <1>11 DEF CopyFail, Rename, Fail
<1>12. ASSUME NEW t \in Threads, Extracted(t) PROVE LockInv'
  BY <1>12 DEF Extracted, IInv
<1>13. CASE Crash
  BY <1>13 DEF Crash
<1> QED
  BY <1>2, <1>3, <1>4, <1>5, <1>6, <1>7, <1>8, <1>9, <1>10, <1>11, <1>12, <1>13
  DEF Next, Step

\* Two goroutines past the second Stat of the same file would both be its sole
\* lock holder.
LEMMA LockExcludes == IInv => SingleDownloader
BY DEF IInv, LockInv, SingleDownloader, Filling, Locked

\* Only a rename makes the cache non-empty, and the only goroutine that can
\* rename this file is the one that found it empty.
LEMMA MissStep == ASSUME IInv, [Next]_vars PROVE MissInv'
<1> USE DEF MissInv, TypeOK, Filling, Goto
<1> SUFFICES ASSUME Next PROVE MissInv'
  BY DEF IInv, vars
<1>1. ASSUME UNCHANGED <<cache, pc, file>> PROVE MissInv'
  BY <1>1 DEF IInv
<1>2. ASSUME NEW u \in Uploads, SaveChunk(u) \/ SaveEnd(u) PROVE MissInv'
  BY <1>1, <1>2 DEF SaveChunk, SaveEnd, workerVars
<1>3. ASSUME NEW u \in Uploads, NEW f \in Files, SaveOpen(u, f) PROVE MissInv'
  BY <1>1, <1>3 DEF SaveOpen
<1>4. ASSUME NEW f \in Files, DeletePackage(f) PROVE MissInv'
  BY <1>1, <1>4 DEF DeletePackage, workerVars
<1>5. ASSUME NEW t \in Threads, NEW f \in Files, Call(t, f) PROVE MissInv'
  BY <1>5 DEF Call, IInv
<1>6. ASSUME NEW t \in Threads, Stat(t) \/ Lock(t) \/ Restat(t) PROVE MissInv'
  BY <1>6 DEF Stat, Lock, Restat, IInv
<1>7. ASSUME NEW t \in Threads, HttpGet(t) \/ CreateTmp(t) \/ CopyDone(t) PROVE MissInv'
  BY <1>7 DEF HttpGet, CreateTmp, CopyDone, IInv
<1>8. ASSUME NEW t \in Threads, CopyChunk(t) PROVE MissInv'
  BY <1>1, <1>8 DEF CopyChunk
<1>9. ASSUME NEW t \in Threads, CopyFail(t) \/ Fail(t) \/ Extracted(t) PROVE MissInv'
  BY <1>9 DEF CopyFail, Fail, Extracted, IInv
<1>10. ASSUME NEW t \in Threads, Rename(t) PROVE MissInv'
  <2>1. SingleDownloader
    BY LockExcludes
  <2> SUFFICES ASSUME NEW s \in Threads, pc'[s] \in Filling PROVE cache'[file'[s]] = <<>>
    OBVIOUS
  <2>2. s # t /\ pc[s] \in Filling /\ file'[s] = file[s]
    BY <1>10 DEF Rename, IInv
  <2>3. file[s] # file[t]
    BY <1>10, <2>1, <2>2 DEF Rename, SingleDownloader
  <2> QED BY <1>10, <2>2, <2>3 DEF Rename, IInv
<1>11. CASE Crash
  BY <1>11 DEF Crash
<1> QED
  BY <1>2, <1>3, <1>4, <1>5, <1>6, <1>7, <1>8, <1>9, <1>10, <1>11 DEF Next, Step

\* Under the lock, the tmp file has one writer: it is what that writer has read.
LEMMA TmpStep == ASSUME IInv, [Next]_vars PROVE TmpInv'
<1> USE DEF TmpInv, TypeOK, Goto
<1> SUFFICES ASSUME Next PROVE TmpInv'
  BY DEF IInv, vars
<1>1. ASSUME UNCHANGED <<tmp, pc, file, resp>> PROVE TmpInv'
  BY <1>1 DEF IInv
<1>2. ASSUME NEW n \in Inodes, Disturb(n), UNCHANGED <<tmp, pc, file>> PROVE TmpInv'
  BY <1>2, DisturbType DEF IInv
<1>3. ASSUME NEW u \in Uploads, SaveChunk(u) PROVE TmpInv'
  BY <1>3 DEF SaveChunk, Disturb, IInv
<1>4. ASSUME NEW u \in Uploads, SaveEnd(u) PROVE TmpInv'
  BY <1>1, <1>4 DEF SaveEnd, workerVars
<1>5. ASSUME NEW u \in Uploads, NEW f \in Files, SaveOpen(u, f) PROVE TmpInv'
  BY <1>5 DEF SaveOpen, Disturb, IInv
<1>6. ASSUME NEW f \in Files, DeletePackage(f) PROVE TmpInv'
  BY <1>1, <1>6 DEF DeletePackage, workerVars
<1>7. ASSUME NEW t \in Threads, NEW f \in Files, Call(t, f) PROVE TmpInv'
  BY <1>7 DEF Call, IInv
<1>8. ASSUME NEW t \in Threads, Stat(t) \/ Lock(t) \/ Restat(t) \/ Extracted(t) PROVE TmpInv'
  BY <1>8 DEF Stat, Lock, Restat, Extracted, IInv
<1>9. ASSUME NEW t \in Threads, HttpGet(t) PROVE TmpInv'
  BY <1>9 DEF HttpGet, IInv
<1>10. \A s, t \in Threads : s # t /\ pc[s] \in {"copy", "rename"} /\ pc[t] \in Filling => file[s] # file[t]
  BY LockExcludes DEF SingleDownloader, Filling
<1>11. ASSUME NEW t \in Threads, CreateTmp(t) PROVE TmpInv'
  BY <1>10, <1>11, EmptySeq DEF CreateTmp, IInv, Filling
<1>12. ASSUME NEW t \in Threads, CopyChunk(t) PROVE TmpInv'
  <2> DEFINE x == disk[resp[t].inode][resp[t].pos + 1]
  <2>1. tmp' = [tmp EXCEPT ![file[t]] = Append(@, x)] /\ resp' = [resp EXCEPT ![t].pos = @ + 1]
    BY <1>12 DEF CopyChunk
  <2>2. tmp[file[t]] \in Content
    BY DEF IInv
  <2>3. Len(Append(tmp[file[t]], x)) = Len(tmp[file[t]]) + 1
    BY <2>2 DEF Content
  <2> HIDE DEF x
  <2> SUFFICES ASSUME NEW s \in Threads PROVE TmpInv!(s)'
    OBVIOUS
  <2>4. CASE s = t
    BY <1>12, <2>1, <2>3, <2>4 DEF CopyChunk, IInv
  <2>5. CASE s # t
    <3>1. resp'[s] = resp[s] /\ pc'[s] = pc[s] /\ file' = file
      BY <1>12, <2>5 DEF CopyChunk, IInv
    <3>2. pc[s] \in {"copy", "rename"} => tmp'[file[s]] = tmp[file[s]]
      BY <1>10, <1>12, <2>1, <2>5 DEF CopyChunk, Filling, IInv
    <3> QED BY <3>1, <3>2 DEF IInv
  <2> QED BY <2>4, <2>5
<1>13. ASSUME NEW t \in Threads, CopyDone(t) PROVE TmpInv'
  BY <1>13 DEF CopyDone, IInv
<1>14. ASSUME NEW t \in Threads, CopyFail(t) \/ Rename(t) \/ Fail(t) PROVE TmpInv'
  <2> SUFFICES ASSUME NEW s \in Threads PROVE TmpInv!(s)'
    OBVIOUS
  <2>1. CASE s = t
    BY <1>14, <2>1 DEF CopyFail, Rename, Fail, IInv
  <2>2. CASE s # t
    <3>1. resp'[s] = resp[s] /\ pc'[s] = pc[s] /\ file' = file
      BY <1>14, <2>2 DEF CopyFail, Rename, Fail, IInv
    <3>2. pc[t] \in Filling
      BY <1>14 DEF CopyFail, Rename, Fail, Filling
    <3>3. pc[s] \in {"copy", "rename"} => tmp'[file[s]] = tmp[file[s]]
      BY <1>10, <1>14, <2>2, <3>2 DEF CopyFail, Rename, Fail, IInv
    <3> QED BY <3>1, <3>3 DEF IInv
  <2> QED BY <2>1, <2>2
<1>15. CASE Crash
  BY <1>15 DEF Crash
<1> QED
  BY <1>3, <1>4, <1>5, <1>6, <1>7, <1>8, <1>9, <1>11, <1>12, <1>13, <1>14, <1>15 DEF Next, Step

-----------------------------------------------------------------------------
\* An empty cache satisfies the invariant.
LEMMA InitIInv == Init => IInv
BY SizesAssumption, EmptySeq
DEF Init, IInv, TypeOK, LockInv, MissInv, TmpInv, Content, Locked, Filling, NoResp

\* The inductive invariant, and with it the type invariant.
THEOREM Inductive == Spec => []IInv
<1>1. IInv /\ [Next]_vars => IInv'
  BY TypeStep, LockStep, MissStep, TmpStep DEF IInv
<1> QED BY InitIInv, <1>1, PTL DEF Spec

\* Every variable keeps its type, whatever the interleaving of deploys, uploads,
\* deletions and worker crashes.
THEOREM TypeCorrect == Spec => []TypeOK
<1>1. IInv => TypeOK
  BY DEF IInv
<1> QED BY Inductive, <1>1, PTL

\* Two goroutines never download the same package at the same time
\* (instance_manager.go, downloadLocks).
THEOREM OneDownloader == Spec => []SingleDownloader
BY Inductive, LockExcludes, PTL

\* The file renamed onto the cache path has the announced length.
THEOREM NoShortBody == Spec => []BodyComplete
<1>1. IInv => BodyComplete
  BY DEF IInv, TmpInv, BodyComplete
<1> QED BY Inductive, <1>1, PTL

\* A package present on the worker is never replaced.
THEOREM Immutable == Spec => CacheWriteOnce
<1> DEFINE A == \A f \in Files : cache[f] # <<>> => cache'[f] = cache[f]
<1>1. ASSUME IInv, [Next]_vars PROVE [A]_vars
  <2>1. CASE UNCHANGED cache
    BY <2>1
  <2>2. ASSUME NEW t \in Threads, Rename(t) PROVE A
    <3>1. cache[file[t]] = <<>>
      BY <1>1, <2>2 DEF Rename, IInv, MissInv, Filling
    <3> QED BY <1>1, <2>2, <3>1 DEF Rename, IInv, TypeOK
  <2> QED
    BY <1>1, <2>1, <2>2 DEF Next, Step, vars, masterVars, workerVars, SaveOpen, SaveChunk, SaveEnd,
       DeletePackage, Call, Stat, Lock, Restat, HttpGet, CreateTmp, CopyChunk, CopyDone,
       CopyFail, Fail, Extracted, Crash
<1> QED BY Inductive, <1>1, PTL DEF Spec, CacheWriteOnce

-----------------------------------------------------------------------------
(***************************************************************************)
(* A torn package needs an overlapping upload                              *)
(***************************************************************************)

\* Every chunk of c comes from upload u.
AllFrom(c, u) == \A i \in 1..Len(c) : c[i] = u

\* What a goroutine knows while nobody has written to the inode it reads: the
\* inode is still the whole upload it was when the request was answered, and
\* the tmp file holds chunks of that upload alone.
CleanAt(t) ==
    resp[t].clean =>
        /\ pc[t] \in {"create", "copy"} =>
              \E u \in Uploads : /\ disk[resp[t].inode] = WholeOf(u)
                                 /\ resp[t].size = Chunks
                                 /\ pc[t] = "copy" => AllFrom(tmp[file[t]], u)
        /\ pc[t] = "rename" => IsWhole(tmp[file[t]])

CleanInv == \A t \in Threads : CleanAt(t)

\* A whole file has Chunks chunks, all from its upload.
LEMMA WholeFacts ==
    ASSUME NEW u \in Uploads
    PROVE  /\ Len(WholeOf(u)) = Chunks
           /\ \A i \in 1..Chunks : WholeOf(u)[i] = u
<1>1. WholeOf(u) \in [1..Chunks -> {u}]
  BY DEF WholeOf
<1>2. Chunks \in Nat
  BY SizesAssumption
<1>3. WholeOf(u) \in Seq({u})
  BY <1>1, <1>2, SeqDef
<1>4. DOMAIN WholeOf(u) = 1..Chunks
  BY <1>1
<1>5. Len(WholeOf(u)) = Chunks
  BY <1>2, <1>3, <1>4, LenProperties
<1> QED BY <1>5 DEF WholeOf

\* ... and a file of that length with only chunks of one upload is whole.
LEMMA AllFromWhole ==
    ASSUME NEW c \in Content, NEW u \in Uploads, Len(c) = Chunks, AllFrom(c, u)
    PROVE  IsWhole(c)
<1>1. c \in [1..Chunks -> 0..MaxUploads]
  BY LenProperties DEF Content
<1>2. c = WholeOf(u)
  BY <1>1 DEF AllFrom, WholeOf
<1> QED BY <1>2 DEF IsWhole

\* A write to an inode makes every download of it unclean and leaves the others
\* as they are (file system of the master, package_manager.go SavePackage).
LEMMA DisturbKeeps ==
    ASSUME IInv, CleanInv, NEW n \in Inodes, Disturb(n), NEW x, disk' = [disk EXCEPT ![n] = x],
           UNCHANGED <<tmp, pc, file>>
    PROVE  CleanInv'
<1> SUFFICES ASSUME NEW t \in Threads, resp'[t].clean PROVE CleanAt(t)'
  BY DEF CleanInv, CleanAt
<1>1. resp[t].inode # n /\ resp'[t] = resp[t]
  BY DEF Disturb, IInv, TypeOK
<1>2. pc[t] \in {"create", "copy"} => disk'[resp[t].inode] = disk[resp[t].inode]
  BY <1>1 DEF IInv, TypeOK, TmpInv
<1>3. CleanAt(t)
  BY DEF CleanInv
<1> QED BY <1>1, <1>2, <1>3 DEF CleanAt

\* Every step keeps it: the tmp file has one writer (LockExcludes), and that
\* writer appends what it reads.
LEMMA CleanStep == ASSUME IInv, CleanInv, [Next]_vars PROVE CleanInv'
<1> USE DEF TypeOK, Goto
<1>0. ASSUME UNCHANGED <<disk, tmp, pc, file, resp>> PROVE CleanInv'
  BY <1>0 DEF CleanInv, CleanAt
<1> SUFFICES ASSUME Next PROVE CleanInv'
  BY <1>0 DEF vars
<1>1. ASSUME NEW u \in Uploads, SaveChunk(u) PROVE CleanInv'
  <2>1. CASE upload[u].inode \in Inodes
    BY <1>1, <2>1, DisturbKeeps DEF SaveChunk
  <2>2. CASE upload[u].inode \notin Inodes
    <3>1. disk' = disk
      BY <1>1, <2>2 DEF SaveChunk, IInv
    <3>2. \A t \in Threads : resp'[t] = resp[t] \/ ~resp'[t].clean
      BY <1>1 DEF SaveChunk, Disturb, IInv
    <3> QED BY <1>1, <3>1, <3>2 DEF SaveChunk, CleanInv, CleanAt
  <2> QED BY <2>1, <2>2
<1>2. ASSUME NEW u \in Uploads, SaveEnd(u) PROVE CleanInv'
  BY <1>0, <1>2 DEF SaveEnd, workerVars
<1>3. ASSUME NEW u \in Uploads, NEW f \in Files, SaveOpen(u, f) PROVE CleanInv'
  <2> DEFINE n == IF dir[f] = 0 THEN u ELSE dir[f]
  <2>1. n \in Inodes
    BY DEF IInv, Inodes
  <2>2. Disturb(n) /\ disk' = [disk EXCEPT ![n] = <<>>] /\ UNCHANGED <<tmp, pc, file>>
    BY <1>3 DEF SaveOpen
  <2> HIDE DEF n
  <2> QED BY <2>1, <2>2, DisturbKeeps
<1>4. ASSUME NEW f \in Files, DeletePackage(f) PROVE CleanInv'
  BY <1>0, <1>4 DEF DeletePackage, workerVars
<1>5. ASSUME NEW t \in Threads, NEW f \in Files, Call(t, f) PROVE CleanInv'
  BY <1>5 DEF Call, IInv, CleanInv, CleanAt, masterVars
<1>6. ASSUME NEW t \in Threads, Stat(t) \/ Lock(t) \/ Restat(t) \/ Extracted(t) PROVE CleanInv'
  <2>1. UNCHANGED <<disk, tmp, file, resp>>
    BY <1>6 DEF Stat, Lock, Restat, Extracted, masterVars
  <2>2. \A s \in Threads : pc'[s] = pc[s] \/ pc'[s] \notin {"create", "copy", "rename"}
    BY <1>6 DEF Stat, Lock, Restat, Extracted, IInv
  <2> QED BY <2>1, <2>2 DEF CleanInv, CleanAt
<1>7. ASSUME NEW t \in Threads, HttpGet(t) PROVE CleanInv'
  <2>1. UNCHANGED <<disk, tmp, file>>
    BY <1>7 DEF HttpGet, masterVars
  <2> SUFFICES ASSUME NEW s \in Threads, resp'[s].clean PROVE CleanAt(s)'
    BY DEF CleanInv, CleanAt
  <2>2. CASE s = t
    <3> DEFINE n == dir[file[t]]
    <3>1. resp'[t] = [inode |-> n, size |-> Len(disk[n]), pos |-> 0, clean |-> IsWhole(disk[n])]
      BY <1>7 DEF HttpGet, IInv
    <3>2. IsWhole(disk[n])
      BY <2>2, <3>1
    <3>3. PICK u \in Uploads : disk[n] = WholeOf(u)
      BY <3>2 DEF IsWhole
    <3>4. Len(disk[n]) = Chunks
      BY <3>3, WholeFacts
    <3>5. pc'[t] = "create"
      BY <1>7 DEF HttpGet, IInv
    <3> QED BY <2>1, <2>2, <3>1, <3>3, <3>4, <3>5 DEF CleanAt
  <2>3. CASE s # t
    <3>1. resp'[s] = resp[s] /\ pc'[s] = pc[s]
      BY <1>7, <2>3 DEF HttpGet, IInv
    <3> QED BY <2>1, <3>1 DEF CleanInv, CleanAt
  <2> QED BY <2>2, <2>3
<1>8. ASSUME NEW t \in Threads, NEW s \in Threads, s # t, pc[t] \in Filling,
             UNCHANGED <<disk, file>>, resp'[s] = resp[s], pc'[s] = pc[s],
             \A f \in Files : f # file[t] => tmp'[f] = tmp[f]
      PROVE  CleanAt(s)'
  <2>1. CleanAt(s)
    BY DEF CleanInv
  <2>2. pc[s] \in {"copy", "rename"} => file[s] # file[t]
    BY <1>8, LockExcludes DEF SingleDownloader, Filling
  <2>3. pc[s] \in {"copy", "rename"} => tmp'[file'[s]] = tmp[file[s]]
    BY <1>8, <2>2 DEF IInv
  <2> QED BY <1>8, <2>1, <2>3 DEF CleanAt
<1>9. ASSUME NEW t \in Threads, CreateTmp(t) PROVE CleanInv'
  <2> SUFFICES ASSUME NEW s \in Threads PROVE CleanAt(s)'
    BY DEF CleanInv
  <2>1. CASE s = t
    <3>1. tmp'[file'[t]] = <<>> /\ resp' = resp /\ disk' = disk /\ pc'[t] = "copy" /\ pc[t] = "create"
      BY <1>9 DEF CreateTmp, IInv, masterVars
    <3>2. \A u \in Uploads : AllFrom(tmp'[file'[t]], u)
      BY <3>1, EmptySeq DEF AllFrom
    <3>3. CleanAt(t)
      BY DEF CleanInv
    <3> QED BY <2>1, <3>1, <3>2, <3>3 DEF CleanAt, AllFrom
  <2>2. CASE s # t
    BY <1>8, <1>9, <2>2 DEF CreateTmp, IInv, masterVars, Filling
  <2> QED BY <2>1, <2>2
<1>10. ASSUME NEW t \in Threads, CopyChunk(t) PROVE CleanInv'
  <2> DEFINE x == disk[resp[t].inode][resp[t].pos + 1]
  <2>0. tmp' = [tmp EXCEPT ![file[t]] = Append(@, x)] /\ resp' = [resp EXCEPT ![t].pos = @ + 1]
    BY <1>10 DEF CopyChunk
  <2> SUFFICES ASSUME NEW s \in Threads PROVE CleanAt(s)'
    BY DEF CleanInv
  <2>1. CASE s = t
    <3> SUFFICES ASSUME resp'[t].clean PROVE CleanAt(t)'
      BY <2>1 DEF CleanAt
    <3>1. /\ disk' = disk /\ file' = file /\ pc' = pc /\ pc[t] = "copy"
          /\ resp'[t].inode = resp[t].inode /\ resp'[t].size = resp[t].size /\ resp[t].clean
      BY <1>10, <2>0 DEF CopyChunk, IInv, masterVars
    <3>2. PICK u \in Uploads : /\ disk[resp[t].inode] = WholeOf(u)
                               /\ resp[t].size = Chunks
                               /\ AllFrom(tmp[file[t]], u)
      BY <3>1 DEF CleanInv, CleanAt
    <3>3. x = u
      <4>1. resp[t].pos + 1 \in 1..Chunks
        BY <1>10, <3>2, SizesAssumption DEF CopyChunk, IInv
      <4> QED BY <3>2, <4>1, WholeFacts
    <3> HIDE DEF x
    <3>4. tmp[file[t]] \in Seq(0..MaxUploads) /\ tmp'[file[t]] = Append(tmp[file[t]], u)
      BY <2>0, <3>3 DEF IInv, Content
    <3>5. AllFrom(tmp'[file[t]], u)
      <4>1. u \in 0..MaxUploads
        BY SizesAssumption DEF Uploads
      <4>2. ASSUME NEW i \in 1..Len(Append(tmp[file[t]], u)) PROVE Append(tmp[file[t]], u)[i] = u
        BY <3>2, <3>4, <4>1, AppendProperties DEF AllFrom
      <4> QED BY <3>4, <4>2 DEF AllFrom
    <3> QED BY <3>1, <3>2, <3>5 DEF CleanAt, AllFrom
  <2>2. CASE s # t
    <3>1. \A f \in Files : f # file[t] => tmp'[f] = tmp[f]
      BY <2>0 DEF IInv
    <3>2. resp'[s] = resp[s] /\ pc'[s] = pc[s] /\ UNCHANGED <<disk, file>> /\ pc[t] \in Filling
      BY <1>10, <2>0, <2>2 DEF CopyChunk, IInv, masterVars, Filling
    <3> QED BY <1>8, <2>2, <3>1, <3>2
  <2> QED BY <2>1, <2>2
<1>11. ASSUME NEW t \in Threads, CopyDone(t) PROVE CleanInv'
  <2> SUFFICES ASSUME NEW s \in Threads PROVE CleanAt(s)'
    BY DEF CleanInv
  <2>1. CASE s = t
    <3> SUFFICES ASSUME resp'[t].clean PROVE CleanAt(t)'
      BY <2>1 DEF CleanAt
    <3>1. resp' = resp /\ tmp' = tmp /\ file' = file /\ pc[t] = "copy" /\ pc'[t] = "rename"
      BY <1>11 DEF CopyDone, IInv
    <3>2. PICK u \in Uploads : resp[t].size = Chunks /\ AllFrom(tmp[file[t]], u)
      BY <3>1 DEF CleanInv, CleanAt
    <3>3. tmp[file[t]] \in Content /\ Len(tmp[file[t]]) = Chunks
      BY <1>11, <3>1, <3>2 DEF CopyDone, IInv, TmpInv
    <3>4. IsWhole(tmp[file[t]])
      BY <3>2, <3>3, AllFromWhole
    <3> QED BY <3>1, <3>4 DEF CleanAt, IsWhole, WholeOf
  <2>2. CASE s # t
    <3>1. tmp' = tmp /\ resp' = resp /\ disk' = disk /\ file' = file /\ pc'[s] = pc[s]
      BY <1>11, <2>2 DEF CopyDone, IInv, masterVars
    <3> QED BY <3>1 DEF CleanInv, CleanAt
  <2> QED BY <2>1, <2>2
<1>12. ASSUME NEW t \in Threads, CopyFail(t) \/ Rename(t) \/ Fail(t) PROVE CleanInv'
  <2>1. resp' = [resp EXCEPT ![t] = NoResp]
    BY <1>12 DEF CopyFail, Rename, Fail
  <2> SUFFICES ASSUME NEW s \in Threads PROVE CleanAt(s)'
    BY DEF CleanInv
  <2>2. CASE s = t
    BY <2>1, <2>2 DEF CleanAt, NoResp, IInv
  <2>3. CASE s # t
    <3>1. UNCHANGED <<disk, file>> /\ pc[t] \in Filling
      BY <1>12 DEF CopyFail, Rename, Fail, masterVars, Filling
    <3>2. resp'[s] = resp[s] /\ pc'[s] = pc[s]
      BY <1>12, <2>1, <2>3 DEF CopyFail, Rename, Fail, IInv
    <3>3. \A f \in Files : f # file[t] => tmp'[f] = tmp[f]
      BY <1>12 DEF CopyFail, Rename, Fail, IInv
    <3> QED BY <1>8, <2>3, <3>1, <3>2, <3>3
  <2> QED BY <2>2, <2>3
<1>13. CASE Crash
  BY <1>13 DEF Crash, CleanInv, CleanAt, NoResp
<1> QED
  BY <1>1, <1>2, <1>3, <1>4, <1>5, <1>6, <1>7, <1>9, <1>10, <1>11, <1>12, <1>13 DEF Next, Step

\* A whole file on the master that nobody wrote to during the download is a
\* whole file on the worker: only an overlapping or an aborted upload tears one.
THEOREM Untorn == Spec => []TornOnlyByOverlap
<1>1. Init => CleanInv
  BY DEF Init, CleanInv, CleanAt, NoResp
<1>2. IInv /\ CleanInv /\ [Next]_vars => CleanInv'
  BY CleanStep
<1>3. CleanInv => TornOnlyByOverlap
  BY DEF CleanInv, CleanAt, TornOnlyByOverlap
<1> QED BY Inductive, <1>1, <1>2, <1>3, PTL DEF Spec
=============================================================================
