--------------------------- MODULE PackageCache ---------------------------
(***************************************************************************)
(* The package cache of a worker, and the package store of the master it   *)
(* is filled from.                                                         *)
(*                                                                         *)
(* Worker: DeployInstance runs in a goroutine per /api/deploy request and  *)
(* starts with ensurePackageCached, a double-checked lock per file name    *)
(* around an HTTP download into <file>.tmp and a rename onto <file>.       *)
(*                                                                         *)
(* Master: an upload is saved in place (os.Create truncates the inode the  *)
(* name already has, then io.Copy writes it chunk by chunk), while the     *)
(* same inode may be the body of a download.                               *)
(*                                                                         *)
(* A file's content is the sequence of the uploads its chunks come from; a *)
(* hole left by a writer past the end reads as 0.  A missing cache file    *)
(* and an empty one are both <<>>: the code's test is size > 0.            *)
(***************************************************************************)
EXTENDS Integers, Sequences

CONSTANTS
    Files,       \* package keys: name_version on the worker, name/version.zip on the master
    Threads,     \* deploy goroutines of one worker
    MaxUploads,  \* bound: uploads during a behaviour
    Chunks       \* length of every uploaded package, in chunks

ASSUME SizesAssumption == MaxUploads \in Nat /\ Chunks \in Nat \ {0}

VARIABLES
    dir,      \* master: the inode each name points to, 0 when there is none
    disk,     \* master: the content of each inode
    upload,   \* master: state, inode and offset of each upload
    cache,    \* worker: content of pkgs/<file>
    tmp,      \* worker: content of pkgs/<file>.tmp
    holder,   \* worker: the goroutines inside downloadLocks[file]
    pc,       \* worker: where each goroutine is
    file,     \* worker: the package each goroutine deploys
    resp      \* worker: response body being read: inode, announced size, offset

masterVars == <<dir, disk, upload>>
workerVars == <<cache, tmp, holder, pc, file, resp>>
vars == <<dir, disk, upload, cache, tmp, holder, pc, file, resp>>

Uploads == 1..MaxUploads
Inodes  == Uploads               \* an inode is named after the upload that created it
Content == Seq(0..MaxUploads)

\* Content of a file that upload u was written to alone, from start to end.
WholeOf(u) == [i \in 1..Chunks |-> u]
IsWhole(c) == \E u \in Uploads : c = WholeOf(u)

NoResp == [inode |-> 0, size |-> 0, pos |-> 0, clean |-> FALSE]

\* Inside the critical section of ensurePackageCached.
Locked  == {"restat", "get", "create", "copy", "rename"}
\* ... and past the second Stat.
Filling == {"get", "create", "copy", "rename"}

TypeOK ==
    /\ dir    \in [Files -> {0} \cup Inodes]
    /\ disk   \in [Inodes -> Content]
    /\ upload \in [Uploads -> [state : {"todo", "copying", "ended"},
                               inode : {0} \cup Inodes, pos : 0..Chunks]]
    /\ cache  \in [Files -> Content]
    /\ tmp    \in [Files -> Content]
    /\ holder \in [Files -> SUBSET Threads]
    /\ pc     \in [Threads -> {"idle", "stat", "lock", "cached"} \cup Locked]
    /\ file   \in [Threads -> Files]
    /\ resp   \in [Threads -> [inode : {0} \cup Inodes, size : Nat, pos : Nat,
                               clean : BOOLEAN]]

Init ==
    /\ dir    = [f \in Files |-> 0]
    /\ disk   = [n \in Inodes |-> <<>>]
    /\ upload = [u \in Uploads |-> [state |-> "todo", inode |-> 0, pos |-> 0]]
    /\ cache  = [f \in Files |-> <<>>]
    /\ tmp    = [f \in Files |-> <<>>]
    /\ holder = [f \in Files |-> {}]
    /\ pc     = [t \in Threads |-> "idle"]
    /\ file   \in [Threads -> Files]
    /\ resp   = [t \in Threads |-> NoResp]

-----------------------------------------------------------------------------
(***************************************************************************)
(* Master: storage.LocalProvider under PackageManager                      *)
(***************************************************************************)

\* Content c after v is written at offset i - 1.
Written(c, i, v) ==
    [j \in 1..(IF i > Len(c) THEN i ELSE Len(c)) |->
        IF j = i THEN v ELSE IF j <= Len(c) THEN c[j] ELSE 0]

\* Ghost field of resp: a download of inode n is not clean once n is changed.
Disturb(n) ==
    resp' = [t \in Threads |->
                IF resp[t].inode = n THEN [resp[t] EXCEPT !.clean = FALSE] ELSE resp[t]]

\* os.Create: truncate the file the name points to, or make a new one.
SaveOpen(u, f) ==
    LET n == IF dir[f] = 0 THEN u ELSE dir[f] IN
    /\ upload[u].state = "todo"
    /\ dir'    = [dir EXCEPT ![f] = n]
    /\ disk'   = [disk EXCEPT ![n] = <<>>]
    /\ upload' = [upload EXCEPT ![u] = [state |-> "copying", inode |-> n, pos |-> 0]]
    /\ Disturb(n)
    /\ UNCHANGED <<cache, tmp, holder, pc, file>>

\* Mutant: the copy does not stop at the end of the upload.
SaveChunkOn(u) ==
    /\ upload[u].state = "copying"
    /\ disk'   = [disk EXCEPT ![upload[u].inode] = Written(@, upload[u].pos + 1, u)]
    /\ upload' = [upload EXCEPT ![u].pos = @ + 1]
    /\ Disturb(upload[u].inode)
    /\ UNCHANGED <<dir, cache, tmp, holder, pc, file>>

\* One write of io.Copy.
SaveChunk(u) ==
    /\ upload[u].state = "copying"
    /\ upload[u].pos < Chunks
    /\ disk'   = [disk EXCEPT ![upload[u].inode] = Written(@, upload[u].pos + 1, u)]
    /\ upload' = [upload EXCEPT ![u].pos = @ + 1]
    /\ Disturb(upload[u].inode)
    /\ UNCHANGED <<dir, cache, tmp, holder, pc, file>>

\* io.Copy ends, at the end of the stream or with an error; nothing is undone.
SaveEnd(u) ==
    /\ upload[u].state = "copying"
    /\ upload' = [upload EXCEPT ![u].state = "ended"]
    /\ UNCHANGED <<dir, disk>> /\ UNCHANGED workerVars

\* os.Remove: the name goes, the inode stays for whoever has it open.
DeletePackage(f) ==
    /\ dir[f] # 0
    /\ dir' = [dir EXCEPT ![f] = 0]
    /\ UNCHANGED <<disk, upload>> /\ UNCHANGED workerVars

-----------------------------------------------------------------------------
(***************************************************************************)
(* Worker: ensurePackageCached, called by DeployInstance                   *)
(***************************************************************************)

Goto(t, label) == pc' = [pc EXCEPT ![t] = label]

\* The deferred mu.Unlock() of every return inside the critical section.
Unlock(t) == holder' = [holder EXCEPT ![file[t]] = @ \ {t}]

\* A deploy request starts a goroutine.
Call(t, f) ==
    /\ pc[t] = "idle"
    /\ file' = [file EXCEPT ![t] = f]
    /\ Goto(t, "stat")
    /\ UNCHANGED <<cache, tmp, holder, resp>> /\ UNCHANGED masterVars

\* First Stat, without the lock.
Stat(t) ==
    /\ pc[t] = "stat"
    /\ Goto(t, IF cache[file[t]] # <<>> THEN "cached" ELSE "lock")
    /\ UNCHANGED <<cache, tmp, holder, file, resp>> /\ UNCHANGED masterVars

\* Mutant: Store for LoadOrStore, every caller gets a mutex of its own.
LockOwn(t) ==
    /\ pc[t] = "lock"
    /\ holder' = [holder EXCEPT ![file[t]] = @ \cup {t}]
    /\ Goto(t, "restat")
    /\ UNCHANGED <<cache, tmp, file, resp>> /\ UNCHANGED masterVars

Lock(t) ==
    /\ pc[t] = "lock"
    /\ holder[file[t]] = {}
    /\ holder' = [holder EXCEPT ![file[t]] = {t}]
    /\ Goto(t, "restat")
    /\ UNCHANGED <<cache, tmp, file, resp>> /\ UNCHANGED masterVars

\* Mutant: the file is not looked at again under the lock.
RestatNot(t) ==
    /\ pc[t] = "restat"
    /\ Goto(t, "get")
    /\ UNCHANGED <<cache, tmp, holder, file, resp>> /\ UNCHANGED masterVars

\* Second Stat, under the lock.
Restat(t) ==
    /\ pc[t] = "restat"
    /\ \/ /\ cache[file[t]] # <<>>
          /\ Goto(t, "cached")
          /\ Unlock(t)
       \/ /\ cache[file[t]] = <<>>
          /\ Goto(t, "get")
          /\ UNCHANGED holder
    /\ UNCHANGED <<cache, tmp, file, resp>> /\ UNCHANGED masterVars

\* The file server opens the inode and announces the size it has now.
HttpGet(t) ==
    /\ pc[t] = "get"
    /\ dir[file[t]] # 0
    /\ LET n == dir[file[t]] IN
       resp' = [resp EXCEPT ![t] = [inode |-> n, size |-> Len(disk[n]), pos |-> 0,
                                    clean |-> IsWhole(disk[n])]]
    /\ Goto(t, "create")
    /\ UNCHANGED <<cache, tmp, holder, file>> /\ UNCHANGED masterVars

\* Mutant: the tmp file is opened without being truncated.
CreateTmpAppend(t) ==
    /\ pc[t] = "create"
    /\ Goto(t, "copy")
    /\ UNCHANGED <<cache, tmp, holder, file, resp>> /\ UNCHANGED masterVars

CreateTmp(t) ==
    /\ pc[t] = "create"
    /\ tmp' = [tmp EXCEPT ![file[t]] = <<>>]
    /\ Goto(t, "copy")
    /\ UNCHANGED <<cache, holder, file, resp>> /\ UNCHANGED masterVars

\* One chunk of the body; the inode may have been truncated meanwhile.
CopyChunk(t) ==
    /\ pc[t] = "copy"
    /\ resp[t].pos < resp[t].size
    /\ resp[t].pos < Len(disk[resp[t].inode])
    /\ tmp'  = [tmp EXCEPT ![file[t]] = Append(@, disk[resp[t].inode][resp[t].pos + 1])]
    /\ resp' = [resp EXCEPT ![t].pos = @ + 1]
    /\ UNCHANGED <<cache, holder, pc, file>> /\ UNCHANGED masterVars

\* Mutant: the error of io.Copy is not looked at.
CopyDoneAnyway(t) ==
    /\ pc[t] = "copy"
    /\ Goto(t, "rename")
    /\ UNCHANGED <<cache, tmp, holder, file, resp>> /\ UNCHANGED masterVars

\* The announced number of bytes has been read: io.Copy returns nil.
CopyDone(t) ==
    /\ pc[t] = "copy"
    /\ resp[t].pos = resp[t].size
    /\ Goto(t, "rename")
    /\ UNCHANGED <<cache, tmp, holder, file, resp>> /\ UNCHANGED masterVars

\* Mutant: the error path returns with the lock held.
CopyFailLocked(t) ==
    /\ pc[t] = "copy"
    /\ tmp'  = [tmp EXCEPT ![file[t]] = <<>>]
    /\ resp' = [resp EXCEPT ![t] = NoResp]
    /\ Goto(t, "idle")
    /\ UNCHANGED <<cache, holder, file>> /\ UNCHANGED masterVars

\* The connection broke or the body ended early: tmp is removed.
CopyFail(t) ==
    /\ pc[t] = "copy"
    /\ tmp'  = [tmp EXCEPT ![file[t]] = <<>>]
    /\ resp' = [resp EXCEPT ![t] = NoResp]
    /\ Goto(t, "idle")
    /\ Unlock(t)
    /\ UNCHANGED <<cache, file>> /\ UNCHANGED masterVars

Rename(t) ==
    /\ pc[t] = "rename"
    /\ cache' = [cache EXCEPT ![file[t]] = tmp[file[t]]]
    /\ tmp'   = [tmp EXCEPT ![file[t]] = <<>>]
    /\ resp'  = [resp EXCEPT ![t] = NoResp]
    /\ Goto(t, "cached")
    /\ Unlock(t)
    /\ UNCHANGED file /\ UNCHANGED masterVars

\* MkdirAll, http.Get, a status other than 200, os.Create or os.Rename fails;
\* a tmp file that exists then is left behind.
Fail(t) ==
    /\ pc[t] \in {"get", "create", "rename"}
    /\ resp' = [resp EXCEPT ![t] = NoResp]
    /\ Goto(t, "idle")
    /\ Unlock(t)
    /\ UNCHANGED <<cache, tmp, file>> /\ UNCHANGED masterVars

\* DeployInstance has unpacked the file at the returned path, or failed to.
Extracted(t) ==
    /\ pc[t] = "cached"
    /\ Goto(t, "idle")
    /\ UNCHANGED <<cache, tmp, holder, file, resp>> /\ UNCHANGED masterVars

\* The worker process dies and is started again: the lock map is memory, the
\* two files are not.
Crash ==
    /\ pc'     = [t \in Threads |-> "idle"]
    /\ holder' = [f \in Files |-> {}]
    /\ resp'   = [t \in Threads |-> NoResp]
    /\ UNCHANGED <<cache, tmp, file>> /\ UNCHANGED masterVars

-----------------------------------------------------------------------------
\* Steps a goroutine takes by itself once it runs.
Step(t) ==
    \/ Stat(t)     \/ Lock(t)      \/ Restat(t)   \/ HttpGet(t) \/ CreateTmp(t)
    \/ CopyChunk(t) \/ CopyDone(t) \/ CopyFail(t) \/ Rename(t)  \/ Fail(t)
    \/ Extracted(t)

Next ==
    \/ \E u \in Uploads : SaveChunk(u) \/ SaveEnd(u) \/ \E f \in Files : SaveOpen(u, f)
    \/ \E f \in Files : DeletePackage(f)
    \/ \E t \in Threads : Step(t) \/ \E f \in Files : Call(t, f)
    \/ Crash

Spec == Init /\ [][Next]_vars

\* The goroutine waits for the master: for its answer, or for more of the body.
\* http.Get is the default client's, which has no timeout.
Waiting(t) == pc[t] = "get" \/ (pc[t] = "copy" /\ resp[t].pos < resp[t].size)

\* A step that waits for nobody else's.
LocalStep(t) == ~Waiting(t) /\ Step(t)

\* A goroutine that can run is run, and sync.Mutex does not starve a waiter (its
\* starvation mode).  Nothing is assumed of the master: it may never answer, or
\* stop in the middle of a body.
Fairness == \A t \in Threads : WF_vars(LocalStep(t)) /\ SF_vars(Lock(t))

FairSpec == Spec /\ Fairness

-----------------------------------------------------------------------------
(***************************************************************************)
(* Properties                                                              *)
(***************************************************************************)

\* Only the holder of a file's lock writes its tmp file or renames it: between
\* the second Stat and the rename no other goroutine is downloading the file.
SingleDownloader ==
    \A s, t \in Threads :
        s # t /\ pc[s] \in Filling /\ pc[t] \in Filling => file[s] # file[t]

\* A package is immutable on the worker: once pkgs/<file> is non-empty, no
\* download, crash or new upload replaces it, so an extraction that starts from
\* the returned path reads the bytes that were there when the path was returned.
CacheWriteOnce ==
    [][\A f \in Files : cache[f] # <<>> => cache'[f] = cache[f]]_vars

\* What is about to be renamed onto the cache path is exactly as long as the
\* body the master announced: no short download, no remains of an earlier
\* attempt or of another goroutine's.
BodyComplete ==
    \A t \in Threads : pc[t] = "rename" => Len(tmp[file[t]]) = resp[t].size

\* A torn package can only come from an upload that overlapped the download, or
\* from a master's file that was torn before it (by an upload cut short or two
\* that overlapped): if the master's file was whole when the download began and
\* no upload wrote to it since, the worker has a whole package.
TornOnlyByOverlap ==
    \A t \in Threads : pc[t] = "rename" /\ resp[t].clean => IsWhole(tmp[file[t]])

\* No error path keeps the lock: the only call that never returns is one that
\* waits in the end, itself or behind the lock of the file, for one and the same
\* download that the master never finishes.  (That wait has no limit, and takes
\* every later deployment of the package with it.)
CallReturns ==
    \A t \in Threads :
        \/ []<>(pc[t] = "idle")
        \/ \E s \in Threads : <>[](Waiting(s) /\ file[s] = file[t])
=============================================================================
