--------------------------- MODULE BackupManager ---------------------------
(***************************************************************************)
(* Backup and restore of the master: the database file, the snapshot file  *)
(* that every backup shares, the archives, and the files a restore puts    *)
(* the database aside in.  Nothing here takes a lock.                      *)
(*                                                                         *)
(* The content of the database, and that of one package in the uploads     *)
(* directory (any of them), are the number of the last change made to      *)
(* them.  A package is uploaded in place: while that lasts the file is     *)
(* torn, whoever reads it.  Names of archives and of the files put aside   *)
(* hold the second they were made in.                                      *)
(***************************************************************************)
EXTENDS Integers, FiniteSets

CONSTANTS
    Operators,   \* of the web interface: each has a request under way at a time
    Tags,        \* with the uploads (TRUE) or without them
    MaxRequests, \* bound: requests made
    MaxChanges,  \* bound: changes of the data
    MaxSecond,   \* bound: the clock
    MaxFailures  \* bound: crashes, and disks that fail

ASSUME BackupAssumption ==
    /\ Tags \subseteq BOOLEAN
    /\ MaxRequests \in Nat /\ MaxChanges \in Nat
    /\ MaxSecond \in Nat /\ MaxFailures \in Nat

VARIABLES
    db,       \* ops_data.db
    handle,   \* is bm.db open?
    files,    \* a package in the uploads directory
    upload,   \* is it being written?
    changes,  \* changes so far
    snapshot, \* snapshot.db: what it holds and who is writing it, if anybody
    zips,     \* the archives, by tag and second
    aside,    \* ops_data.db.rollback.<second>
    request,  \* what each operator has asked for, and how far it is
    clash,    \* have two restores run at a time?
    stirred,  \* was the package uploaded or deleted, since a request began alone?
    up,       \* does the process run?
    now,      \* the clock
    requests, \* bound: requests so far
    failures  \* bound: failures so far

backupVars == <<db, handle, files, upload, changes, snapshot, zips, aside, request, clash,
                stirred, up, now, requests, failures>>

uploads == <<files, upload, changes>>
stored  == <<db, handle, uploads>>
world   == <<clash, stirred, up, now, requests, failures>>

Missing   == -1
Torn      == -2
Content   == {Missing, Torn} \cup 0..MaxChanges
Seconds   == 0..MaxSecond
Archives  == Tags \X Seconds
NoZip     == [there |-> FALSE, whole |-> FALSE, by |-> {}, db |-> Missing, files |-> Missing]
NoSnap    == [v |-> Missing, by |-> {}]
NoRequest == [op |-> "backup", at |-> "idle", name |-> <<>>, alone |-> TRUE,
              failed |-> FALSE, v |-> Missing]

BackupTypeOK ==
    /\ db \in Content /\ handle \in {"open", "closed"}
    /\ files \in Content /\ upload \in {"none", "writing"}
    /\ changes \in 0..MaxChanges
    /\ snapshot \in [v : Content, by : SUBSET Operators]
    /\ zips \in [Archives -> [there : BOOLEAN, whole : BOOLEAN, by : SUBSET Operators,
                              db : Content, files : Content]]
    /\ aside \in [Seconds -> Content]
    /\ request \in [Operators -> [op : {"backup", "restore"},
                    at : {"idle", "remove", "vacuum", "copy", "create", "db", "files", "open", "end",
                          "close", "aside", "unzip", "unzipdb", "unzipfiles", "undo", "exit",
                          "ok", "rolledback"},
                    name : Archives \cup {<<>>}, alone : BOOLEAN, failed : BOOLEAN,
                    v : Content \cup Seconds]]
    /\ clash \in BOOLEAN /\ stirred \in {"no", "yes"} /\ up \in BOOLEAN /\ now \in Seconds
    /\ requests \in 0..MaxRequests /\ failures \in 0..MaxFailures

InitBackup ==
    /\ db = 0 /\ handle = "open" /\ files = 0 /\ upload = "none" /\ changes = 0
    /\ snapshot = NoSnap
    /\ zips = [n \in Archives |-> NoZip] /\ aside = [s \in Seconds |-> Missing]
    /\ request = [c \in Operators |-> NoRequest]
    /\ clash = FALSE /\ stirred = "no" /\ up = TRUE /\ now = 0 /\ requests = 0 /\ failures = 0

Doing(c, a)  == up /\ request[c].at = a
GoOn(c, a)   == request' = [request EXCEPT ![c].at = a]
Fail(c, a)   == request' = [request EXCEPT ![c].at = a, ![c].failed = TRUE]
Resting(c)   == request[c].at \in {"idle", "ok", "rolledback"}
Running      == {c \in Operators : ~Resting(c)}
Finish(c, a) == request' = [request EXCEPT ![c] = [NoRequest EXCEPT !.at = a]]
Failure      == failures < MaxFailures /\ failures' = failures + 1

\* A request begins; with another under way neither is alone any more.
Enter(c, r) ==
    /\ up /\ Resting(c) /\ requests < MaxRequests
    /\ requests' = requests + 1
    /\ request' = [d \in Operators |->
                     IF d = c THEN [r EXCEPT !.alone = Running = {}]
                     ELSE IF d \in Running THEN [request[d] EXCEPT !.alone = FALSE]
                     ELSE request[d]]
    /\ stirred' = IF Running = {} /\ upload = "none" THEN "no"
                  ELSE IF Running = {} THEN "yes" ELSE stirred

-----------------------------------------------------------------------------
(***************************************************************************)
(* CreateBackup                                                            *)
(***************************************************************************)
CreateBackup(c, full) ==
    /\ Enter(c, [NoRequest EXCEPT !.at = "remove", !.name = <<full, now>>])
    /\ UNCHANGED stored /\ UNCHANGED <<snapshot, zips, aside, clash, up, now, failures>>

RemoveSnapshot(c) ==
    /\ Doing(c, "remove")
    /\ snapshot' = NoSnap
    /\ GoOn(c, "vacuum")
    /\ UNCHANGED stored /\ UNCHANGED world /\ UNCHANGED <<zips, aside>>

\* VACUUM INTO fails on a closed database and on a file that exists; what it
\* copies is the database as it is when it begins.
Vacuum(c) ==
    /\ Doing(c, "vacuum")
    /\ IF handle = "closed" \/ snapshot # NoSnap
       THEN Finish(c, "idle") /\ UNCHANGED snapshot
       ELSE /\ snapshot' = [v |-> Torn, by |-> {c}]
            /\ request' = [request EXCEPT ![c].at = "copy", ![c].v = db]
    /\ UNCHANGED stored /\ UNCHANGED world /\ UNCHANGED <<zips, aside>>

\* Whoever removed the file meanwhile left a writer of a file without a name.
Copied(c) ==
    /\ Doing(c, "copy")
    /\ \/ snapshot.by = {c} /\ snapshot' = [v |-> request[c].v, by |-> {}]
       \/ snapshot.by # {c} /\ UNCHANGED snapshot
    /\ GoOn(c, "create")
    /\ UNCHANGED stored /\ UNCHANGED world /\ UNCHANGED <<zips, aside>>

CopyFails(c) ==
    /\ Doing(c, "copy") /\ (Failure \/ (snapshot.by # {c} /\ UNCHANGED failures))
    /\ Finish(c, "idle")
    /\ UNCHANGED stored /\ UNCHANGED <<snapshot, zips, aside, clash, stirred, up, now, requests>>

\* os.Create empties an archive of the same name.
CreateZip(c) ==
    /\ Doing(c, "create")
    /\ zips' = [zips EXCEPT ![request[c].name] =
                   [NoZip EXCEPT !.there = TRUE, !.by = @ \cup {c} \cup zips[request[c].name].by]]
    /\ GoOn(c, "db")
    /\ UNCHANGED stored /\ UNCHANGED world /\ UNCHANGED <<snapshot, aside>>

\* An archive that two calls write is of no use.
Zipped(c, z, entry, v) ==
    IF c \notin z.by THEN z ELSE [z EXCEPT ![entry] = IF z.by = {c} THEN v ELSE Torn]

Add(c, entry, v) ==
    zips' = [zips EXCEPT ![request[c].name] = Zipped(c, @, entry, v)]

\* Mutant: an entry that cannot be written whole is not an error.
AddDbUnchecked(c) ==
    /\ Doing(c, "db")
    /\ \/ /\ Add(c, "db", snapshot.v) /\ UNCHANGED failures
          /\ GoOn(c, IF request[c].name[1] THEN "files" ELSE "end")
       \/ /\ Failure /\ Add(c, "db", Torn)
          /\ GoOn(c, IF request[c].name[1] THEN "files" ELSE "end")
    /\ UNCHANGED stored /\ UNCHANGED <<snapshot, aside, clash, stirred, up, now, requests>>

\* Without a snapshot, and when the disk is full, the archive stays as it is.
AddDb(c) ==
    /\ Doing(c, "db")
    /\ \/ snapshot = NoSnap /\ Fail(c, "end") /\ UNCHANGED <<zips, failures>>
       \/ /\ snapshot # NoSnap /\ Add(c, "db", snapshot.v) /\ UNCHANGED failures
          /\ GoOn(c, IF request[c].name[1] THEN "files" ELSE "end")
       \/ Failure /\ Add(c, "db", Torn) /\ Fail(c, "end")
    /\ UNCHANGED stored /\ UNCHANGED <<snapshot, aside, clash, stirred, up, now, requests>>

\* WalkDir reads the directory: a package that is not there is not archived.
ListFiles(c) ==
    /\ Doing(c, "files")
    /\ GoOn(c, IF files = Missing THEN "end" ELSE "open")
    /\ UNCHANGED stored /\ UNCHANGED world /\ UNCHANGED <<snapshot, zips, aside>>

\* A package that has gone since makes the backup fail; one that is being uploaded
\* is archived as far as it has been written, and nobody notices.
AddFile(c) ==
    /\ Doing(c, "open")
    /\ \/ files = Missing /\ Fail(c, "end") /\ UNCHANGED <<zips, failures>>
       \/ files # Missing /\ Add(c, "files", files) /\ GoOn(c, "end") /\ UNCHANGED failures
       \/ Failure /\ Add(c, "files", Torn) /\ Fail(c, "end")
    /\ UNCHANGED stored /\ UNCHANGED <<snapshot, aside, clash, stirred, up, now, requests>>

\* The deferred calls, of a backup that failed as well: the archive gets its
\* directory and is listed, and whatever snapshot there is is removed.  Nobody
\* looks at the errors of Close: on a full disk the directory may be missing.
EndBackup(c) ==
    /\ Doing(c, "end")
    /\ \E whole \in BOOLEAN :
          /\ IF whole THEN UNCHANGED failures ELSE Failure
          /\ LET z == zips[request[c].name] IN
             zips' = [zips EXCEPT ![request[c].name] =
                         IF c \in z.by THEN [z EXCEPT !.whole = whole, !.by = z.by \ {c}] ELSE z]
    /\ snapshot' = NoSnap
    /\ Finish(c, IF request[c].failed THEN "idle" ELSE "ok")
    /\ UNCHANGED stored /\ UNCHANGED <<aside, clash, stirred, up, now, requests>>

-----------------------------------------------------------------------------
(***************************************************************************)
(* ListBackups, DeleteBackup, RestoreBackup                                *)
(***************************************************************************)

\* Every archive in the directory, of a backup that failed or still runs too.
ListBackups == {n \in Archives : zips[n].there}

DeleteBackup(n) ==
    /\ up /\ n \in ListBackups
    /\ zips' = [zips EXCEPT ![n] = NoZip]
    /\ UNCHANGED stored /\ UNCHANGED world /\ UNCHANGED <<snapshot, aside, request>>

RestoreBackup(c, n) ==
    /\ n \in ListBackups
    /\ Enter(c, [NoRequest EXCEPT !.op = "restore", !.at = "close", !.name = n])
    /\ clash' = (clash \/ \E d \in Running : request[d].op = "restore")
    /\ UNCHANGED stored /\ UNCHANGED <<snapshot, zips, aside, up, now, failures>>

\* Close waits for the statements that have begun; closing twice is no error.
CloseDB(c) ==
    /\ Doing(c, "close") /\ \A d \in Operators : ~Doing(d, "copy")
    /\ handle' = "closed"
    /\ GoOn(c, "aside")
    /\ UNCHANGED <<db, uploads, snapshot, zips, aside>> /\ UNCHANGED world

\* Mutant: the database is not put aside.
KeepInPlace(c) ==
    /\ Doing(c, "aside")
    /\ request' = [request EXCEPT ![c].at = "unzip", ![c].v = now]
    /\ UNCHANGED stored /\ UNCHANGED <<snapshot, zips, aside>> /\ UNCHANGED world

\* A rename that fails is not noticed, nor one that replaces a file.
PutAside(c) ==
    /\ Doing(c, "aside")
    /\ IF db = Missing THEN UNCHANGED <<db, aside>>
                      ELSE aside' = [aside EXCEPT ![now] = db] /\ db' = Missing
    /\ request' = [request EXCEPT ![c].at = "unzip", ![c].v = now]
    /\ UNCHANGED <<handle, uploads, snapshot, zips>> /\ UNCHANGED world

\* An archive without its directory cannot be read.
OpenZip(c) ==
    /\ Doing(c, "unzip")
    /\ LET z == zips[request[c].name] IN
       IF ~z.there \/ ~z.whole THEN GoOn(c, "undo") /\ UNCHANGED db
       ELSE IF z.db = Missing THEN GoOn(c, "unzipfiles") /\ UNCHANGED db
       ELSE GoOn(c, "unzipdb") /\ db' = Torn
    /\ UNCHANGED <<handle, uploads, snapshot, zips, aside>> /\ UNCHANGED world

UnzipDb(c) ==
    /\ Doing(c, "unzipdb")
    /\ \/ db' = zips[request[c].name].db /\ GoOn(c, "unzipfiles") /\ UNCHANGED failures
       \/ Failure /\ GoOn(c, "undo") /\ UNCHANGED db
    /\ UNCHANGED <<handle, uploads, snapshot, zips, aside, clash, stirred, up, now, requests>>

\* A package that the archive does not hold stays; one that it holds is overwritten,
\* and is of no use if it is being uploaded at the same time.
UnzipFiles(c) ==
    /\ Doing(c, "unzipfiles")
    /\ LET v == zips[request[c].name].files IN
       \/ v = Missing /\ GoOn(c, "exit") /\ UNCHANGED <<files, upload, failures>>
       \/ /\ v # Missing /\ GoOn(c, "exit") /\ UNCHANGED failures
          /\ files' = (IF upload = "none" THEN v ELSE Torn) /\ upload' = "none"
       \/ v # Missing /\ Failure /\ files' = Torn /\ upload' = "none" /\ GoOn(c, "undo")
    /\ UNCHANGED <<db, handle, changes, snapshot, zips, aside, clash, stirred, up, now, requests>>

\* The database is put back; it stays closed, and the files stay overwritten.
Undo(c) ==
    /\ Doing(c, "undo")
    /\ LET s == request[c].v IN
       IF aside[s] = Missing THEN UNCHANGED <<db, aside>>
                            ELSE db' = aside[s] /\ aside' = [aside EXCEPT ![s] = Missing]
    /\ Finish(c, "rolledback")
    /\ UNCHANGED <<handle, uploads, snapshot, zips>> /\ UNCHANGED world

Stop ==
    /\ up' = FALSE /\ handle' = "closed" /\ upload' = "none"
    /\ request' = [c \in Operators |-> NoRequest]
    /\ zips' = [n \in Archives |-> [zips[n] EXCEPT !.by = {}]]
    /\ snapshot' = [snapshot EXCEPT !.by = {}]

Exit(c) ==
    /\ Doing(c, "exit") /\ Stop
    /\ UNCHANGED <<db, files, changes, aside, clash, stirred, now, requests, failures>>

-----------------------------------------------------------------------------
Crash ==
    /\ up /\ Failure /\ Stop
    /\ UNCHANGED <<db, files, changes, aside, clash, stirred, now, requests>>

\* InitDB creates a database that is not there, and fails on a torn one.  By
\* the time somebody has started the master a second has passed.
InitDB ==
    /\ ~up /\ db # Torn
    /\ now < MaxSecond /\ now' = now + 1
    /\ up' = TRUE /\ handle' = "open"
    /\ db' = IF db = Missing THEN 0 ELSE db
    /\ UNCHANGED <<uploads, snapshot, zips, aside, request, clash, stirred, requests, failures>>

\* A manager writes to the database.
Change ==
    /\ up /\ changes < MaxChanges /\ handle = "open"
    /\ changes' = changes + 1 /\ db' = changes'
    /\ UNCHANGED <<handle, files, upload, snapshot, zips, aside, request>> /\ UNCHANGED world

\* The upload handler empties the file ...
Upload ==
    /\ up /\ upload = "none" /\ changes < MaxChanges
    /\ changes' = changes + 1
    /\ upload' = "writing" /\ files' = Torn /\ stirred' = "yes"
    /\ UNCHANGED <<db, handle, snapshot, zips, aside, request, clash, up, now, requests, failures>>

\* ... and fills it, or leaves what it has written when the client or the disk fails.
Uploaded ==
    /\ upload = "writing" /\ upload' = "none"
    /\ files' \in {changes, Torn}
    /\ UNCHANGED <<db, handle, changes, snapshot, zips, aside, request>> /\ UNCHANGED world

\* An upload that is under way goes on with a file without a name.
RemovePackage ==
    /\ up /\ files # Missing
    /\ files' = Missing /\ upload' = "none" /\ stirred' = "yes"
    /\ UNCHANGED <<db, handle, changes, snapshot, zips, aside, request, clash, up, now, requests,
                   failures>>

SecondPasses ==
    /\ now < MaxSecond
    /\ now' = now + 1
    /\ UNCHANGED stored
    /\ UNCHANGED <<snapshot, zips, aside, request, clash, stirred, up, requests, failures>>

Backup(c) ==
    \/ \E full \in Tags : CreateBackup(c, full)
    \/ RemoveSnapshot(c) \/ Vacuum(c) \/ Copied(c) \/ CopyFails(c)
    \/ CreateZip(c) \/ AddDb(c) \/ ListFiles(c) \/ AddFile(c)
    \/ EndBackup(c)

Restore(c) ==
    \/ \E n \in Archives : RestoreBackup(c, n)
    \/ CloseDB(c) \/ PutAside(c) \/ OpenZip(c) \/ UnzipDb(c) \/ UnzipFiles(c)
    \/ Undo(c) \/ Exit(c)

NextBackup ==
    \/ \E c \in Operators : Backup(c) \/ Restore(c)
    \/ \E n \in Archives : DeleteBackup(n)
    \/ Crash \/ InitDB \/ Change \/ Upload \/ Uploaded \/ RemovePackage \/ SecondPasses

BackupSpec == InitBackup /\ [][NextBackup]_backupVars

-----------------------------------------------------------------------------
(***************************************************************************)
(* Properties                                                              *)
(***************************************************************************)

\* A backup that no other request ran beside, and that was answered with success,
\* holds the database as it was when VACUUM INTO began, and, if no package was
\* uploaded or deleted meanwhile, the packages as they are: unless it has been deleted
\* meanwhile or the disk was full when the archive was closed.  (Beside an upload
\* the half of a package may be archived, with success.)
BackupHolds ==
    [][\A c \in Operators :
         (/\ request[c].op = "backup" /\ request[c].alone /\ failures' = failures
          /\ request[c].at # "ok" /\ request'[c].at = "ok")
           => LET z == zips'[request[c].name] IN
              z.there =>
                /\ z.whole /\ z.db \in 0..changes
                /\ z.db = request[c].v
                /\ request[c].name[1] /\ stirred = "no" => z.files = files]_backupVars

\* The databases there are: those put aside, and the one in use but while it
\* is being replaced by an archive's.
Held ==
    LET replaced == \E c \in Operators :
                       request[c].at \in {"unzipdb", "unzipfiles", "undo", "exit"}
    IN  ({aside[s] : s \in Seconds} \cup IF replaced THEN {} ELSE {db}) \ {Missing, Torn}

\* While nothing can write to it no database is lost, whatever fails and
\* wherever the process dies -- of restores that do not run at the same time.
NothingLost == [][handle = "closed" /\ ~clash' => Held \subseteq Held']_backupVars
=============================================================================
