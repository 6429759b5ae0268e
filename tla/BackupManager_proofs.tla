------------------------ MODULE BackupManager_proofs ------------------------
(***************************************************************************)
(* Proofs about backup and restore, for any number of operators, requests, *)
(* changes, failures and seconds: a backup that nothing ran beside holds   *)
(* what it says it holds, and no database is lost by restores that do not  *)
(* run at the same time, wherever one fails or the process dies.           *)
(***************************************************************************)
EXTENDS BackupManager, TLAPS

\* The stages of a restore, and those of a backup.
RestoreAt == {"close", "aside", "unzip", "unzipdb", "unzipfiles", "undo", "exit"}
BackupAt  == {"remove", "vacuum", "copy", "create", "db", "files", "open", "end"}
Stages    == RestoreAt \cup BackupAt \cup {"idle", "ok", "rolledback"}

Closed  == RestoreAt \ {"close"}     \* of a restore that has closed the database
Moved   == Closed \ {"aside"}        \* and has put it aside
Zipping == {"db", "files", "open", "end"}  \* of a backup with an archive
Snapped == Zipping \cup {"create"}   \* and of one with a snapshot

Asked == [op : {"backup", "restore"}, at : Stages, name : Archives \cup {<<>>},
          alone : BOOLEAN, failed : BOOLEAN, v : Content \cup Seconds]
Zip   == [there : BOOLEAN, whole : BOOLEAN, by : SUBSET Operators, db : Content, files : Content]
SoFar == {Missing, Torn} \cup 0..changes

\* Nothing holds a change that was not made yet.
DataInv ==
    /\ db \in SoFar /\ snapshot.v \in SoFar
    /\ \A n \in Archives : zips[n].db \in SoFar
    /\ \A s \in Seconds : aside[s] \in SoFar

\* What a request remembers fits the stage it has come to.
RequestInv ==
    \A c \in Operators :
      /\ request[c].at \in BackupAt => request[c].op = "backup" /\ request[c].name \in Archives
      /\ request[c].at \in RestoreAt => request[c].op = "restore" /\ request[c].name \in Archives
      /\ request[c].at \in Snapped \cup {"copy"} => request[c].v \in 0..changes
      /\ request[c].at \in Moved => request[c].v \in Seconds

\* An open database is there and whole; after a restart there are no requests.
HandleInv ==
    /\ handle = "open" => db \in 0..changes /\ \A c \in Operators : request[c].at \notin Closed
    /\ ~up => handle = "closed" /\ \A c \in Operators : request[c].at = "idle"

\* A request that is alone is the only one under way.
AloneInv ==
    \A c, d \in Operators : request[c].alone /\ ~Resting(c) /\ ~Resting(d) => c = d

\* Restores that never ran at a time do not run at a time.
ClashInv ==
    ~clash => \A c, d \in Operators :
                 request[c].at \in RestoreAt /\ request[d].at \in RestoreAt => c = d

\* Whoever writes an archive is a backup of that name.
ZipInv ==
    \A n \in Archives, c \in Operators :
      c \in zips[n].by => request[c].at \in Zipping /\ request[c].name = n

\* What a backup that is alone has done so far: its snapshot is the database
\* it read, and its archive is still its own and holds that snapshot.
HoldsOf(c) ==
    /\ request[c].at = "copy" => snapshot.by = {c}
    /\ request[c].at \in Snapped => snapshot = [v |-> request[c].v, by |-> {}]
    /\ request[c].at \in Zipping =>
         LET z == zips[request[c].name] IN
         z.there =>
           /\ c \in z.by
           /\ request[c].at # "db" /\ ~request[c].failed => z.db = request[c].v

HoldsInv == \A c \in Operators : request[c].alone => HoldsOf(c)

\* ... and, unless a package was uploaded or deleted meanwhile, the package.
FilesOf(c) ==
    LET z == zips[request[c].name] IN
    z.there =>
      /\ request[c].at \in {"db", "files", "open"} => z.files = Missing
      /\ request[c].at = "end" /\ ~request[c].failed /\ request[c].name[1] /\ stirred = "no" =>
            z.files = files

FilesInv ==
    /\ upload = "writing" => stirred = "yes"
    /\ \A c \in Operators : request[c].alone => FilesOf(c)

\* Nothing is put aside under a second that is still to come; of restores one at
\* a time, that of this second is put aside by the one that is under way.
AsideInv ==
    /\ \A s \in Seconds : aside[s] # Missing => s <= now
    /\ ~clash =>
         /\ \A c \in Operators : request[c].at = "unzip" => db = Missing
         /\ up /\ aside[now] # Missing =>
              \E c \in Operators : request[c].at \in Moved /\ request[c].v = now

\* The inductive invariant.
BackupIInv ==
    /\ BackupTypeOK /\ DataInv /\ RequestInv /\ HandleInv /\ AloneInv /\ ClashInv /\ ZipInv
    /\ HoldsInv /\ FilesInv /\ AsideInv

-----------------------------------------------------------------------------
\* The request of c goes on, with f for failed and v for what it remembers.
Moves(c, a, f, v) ==
    /\ request' \in [Operators -> Asked]
    /\ request'[c].op = request[c].op /\ request'[c].name = request[c].name
    /\ request'[c].alone = request[c].alone
    /\ request'[c].at = a /\ request'[c].failed = f /\ request'[c].v = v
    /\ \A d \in Operators \ {c} : request'[d] = request[d]

\* Requests have their types.
LEMMA RequestType == BackupTypeOK => request \in [Operators -> Asked]
BY DEF BackupTypeOK, Asked, Stages, RestoreAt, BackupAt

\* Archives have theirs ...
LEMMA ZipsType == BackupTypeOK => zips \in [Archives -> Zip]
BY DEF BackupTypeOK, Zip

\* ... and so have the counters and the files put aside.
LEMMA Times ==
    BackupTypeOK => /\ changes \in 0..MaxChanges /\ MaxChanges \in Nat /\ changes \in Nat
                    /\ now \in Seconds /\ now \in Nat /\ Seconds \subseteq Nat
                    /\ aside \in [Seconds -> Content]
BY BackupAssumption DEF BackupTypeOK, Seconds

\* Failures are counted up to their bound.
LEMMA FailuresType ==
    ASSUME BackupTypeOK, Failure \/ UNCHANGED failures
    PROVE  failures' \in 0..MaxFailures
BY BackupAssumption DEF BackupTypeOK, Failure

\* One request goes on, in each of the ways there are.
LEMMA OneGoesOn ==
    ASSUME BackupTypeOK, NEW c \in Operators, NEW a \in Stages, GoOn(c, a)
    PROVE  Moves(c, a, request[c].failed, request[c].v)
<1>1. [request[c] EXCEPT !.at = a] \in Asked
  BY RequestType DEF Asked
<1> QED BY <1>1, RequestType DEF Moves, GoOn, Asked

\* ... fails and goes on to its end ...
LEMMA OneFails ==
    ASSUME BackupTypeOK, NEW c \in Operators, NEW a \in Stages, Fail(c, a)
    PROVE  Moves(c, a, TRUE, request[c].v)
<1>1. [request[c] EXCEPT !.at = a, !.failed = TRUE] \in Asked
  BY RequestType DEF Asked
<1> QED BY <1>1, RequestType DEF Moves, Fail, Asked

\* ... goes on and remembers something ...
LEMMA OneRemembers ==
    ASSUME BackupTypeOK, NEW c \in Operators, NEW a \in Stages, NEW v \in Content \cup Seconds,
           request' = [request EXCEPT ![c].at = a, ![c].v = v]
    PROVE  Moves(c, a, request[c].failed, v)
<1>1. [request[c] EXCEPT !.at = a, !.v = v] \in Asked
  BY RequestType DEF Asked
<1> QED BY <1>1, RequestType DEF Moves, Asked

\* ... or it is over.
LEMMA OneFinishes ==
    ASSUME BackupTypeOK, NEW c \in Operators, NEW a \in {"idle", "ok", "rolledback"}, Finish(c, a)
    PROVE  /\ request' \in [Operators -> Asked]
           /\ request'[c].at = a
           /\ \A d \in Operators \ {c} : request'[d] = request[d]
<1>1. [NoRequest EXCEPT !.at = a] \in Asked
  BY DEF Asked, NoRequest, Stages, RestoreAt, BackupAt, Content
<1>2. [NoRequest EXCEPT !.at = a].at = a
  BY DEF NoRequest
<1> QED BY <1>1, <1>2, RequestType DEF Finish

\* One archive is changed.
LEMMA OneArchive ==
    ASSUME BackupTypeOK, NEW n \in Archives, NEW y \in Zip, zips' = [zips EXCEPT ![n] = y]
    PROVE  /\ zips' \in [Archives -> Zip] /\ zips'[n] = y
           /\ \A m \in Archives \ {n} : zips'[m] = zips[m]
BY ZipsType

\* An entry that is added changes nothing else, and of an archive that nobody
\* else writes it is what was to be added.
LEMMA ZippedDb ==
    ASSUME NEW c \in Operators, NEW z \in Zip, NEW w \in Content
    PROVE  LET y == Zipped(c, z, "db", w) IN
           /\ y \in Zip /\ y.there = z.there /\ y.by = z.by /\ y.files = z.files
           /\ z.by = {c} => y.db = w
           /\ y.db \in {z.db, w, Torn}
BY DEF Zipped, Zip, Content

\* The same of the uploads.
LEMMA ZippedFiles ==
    ASSUME NEW c \in Operators, NEW z \in Zip, NEW w \in Content
    PROVE  LET y == Zipped(c, z, "files", w) IN
           /\ y \in Zip /\ y.there = z.there /\ y.by = z.by /\ y.db = z.db
           /\ z.by = {c} => y.files = w
           /\ y.files \in {z.files, w, Torn}
BY DEF Zipped, Zip, Content

\* A request begins: with another under way neither is alone.
LEMMA OneEnters ==
    ASSUME BackupTypeOK, NEW c \in Operators, NEW r \in Asked, Enter(c, r)
    PROVE  /\ request' \in [Operators -> Asked]
           /\ request'[c].at = r.at /\ request'[c].op = r.op /\ request'[c].name = r.name
           /\ request'[c].alone <=> Running = {}
           /\ \A d \in Operators \ {c} :
                /\ request'[d].at = request[d].at /\ request'[d].op = request[d].op
                /\ request'[d].name = request[d].name /\ request'[d].v = request[d].v
                /\ request'[d].failed = request[d].failed
                /\ request'[d].alone => request[d].alone /\ Resting(d)
           /\ up /\ Resting(c) /\ requests' \in 0..MaxRequests
           /\ stirred' \in {"no", "yes"}
           /\ upload = "writing" => stirred' = "yes" \/ stirred' = stirred
<1> DEFINE new(d) == IF d = c THEN [r EXCEPT !.alone = Running = {}]
                     ELSE IF d \in Running THEN [request[d] EXCEPT !.alone = FALSE]
                     ELSE request[d]
<1>1. request' = [d \in Operators |-> new(d)]
  BY DEF Enter
<1>2. /\ new(c) \in Asked /\ new(c).at = r.at /\ new(c).op = r.op /\ new(c).name = r.name
      /\ new(c).alone <=> Running = {}
  <2>1. new(c) = [r EXCEPT !.alone = Running = {}] /\ (Running = {}) \in BOOLEAN
    OBVIOUS
  <2> QED BY <2>1 DEF Asked
<1>3. ASSUME NEW d \in Operators \ {c}
      PROVE  /\ new(d) \in Asked
             /\ new(d).at = request[d].at /\ new(d).op = request[d].op
             /\ new(d).name = request[d].name /\ new(d).v = request[d].v
             /\ new(d).failed = request[d].failed
             /\ new(d).alone => request[d].alone /\ Resting(d)
  <2>1. new(d) = IF d \in Running THEN [request[d] EXCEPT !.alone = FALSE] ELSE request[d]
    OBVIOUS
  <2>2. d \in Running <=> ~Resting(d)
    BY DEF Running
  <2> QED BY <2>1, <2>2, RequestType DEF Asked
<1> HIDE DEF new
<1>4. up /\ Resting(c) /\ requests' \in 0..MaxRequests
  BY BackupAssumption DEF Enter, BackupTypeOK
<1>5. /\ stirred' \in {"no", "yes"}
      /\ upload = "writing" => stirred' = "yes" \/ stirred' = stirred
  BY DEF Enter, BackupTypeOK
<1> QED BY <1>1, <1>2, <1>3, <1>4, <1>5

-----------------------------------------------------------------------------
\* The steps of a backup keep the invariant, one by one ...
LEMMA CreateBackupIInv ==
    ASSUME BackupIInv, NEW c \in Operators, NEW full \in Tags, CreateBackup(c, full)
    PROVE  BackupIInv'
<1> USE DEF BackupIInv
<1> DEFINE r == [NoRequest EXCEPT !.at = "remove", !.name = <<full, now>>]
<1>1. /\ r \in Asked /\ r.at = "remove" /\ r.op = "backup" /\ r.name \in Archives
      /\ r.v = Missing
  BY Times DEF NoRequest, Asked, Stages, RestoreAt, BackupAt, Content, Archives
<1>2. Enter(c, r)
  BY DEF CreateBackup
<1> HIDE DEF r
<1>3. UNCHANGED <<db, handle, files, upload, changes, snapshot, zips, aside, clash, up, now,
                  failures>>
  BY DEF CreateBackup, uploads, stored
<1>4. BackupTypeOK'
  BY <1>1, <1>2, <1>3, OneEnters DEF BackupTypeOK, Asked, Stages, RestoreAt, BackupAt
<1> USE DEF RestoreAt, BackupAt, Closed, Moved, Zipping, Snapped, SoFar
<1>5. DataInv' /\ HandleInv' /\ AsideInv'
  <2>1. /\ request'[c].at = "remove" /\ request[c].at \notin RestoreAt /\ up
        /\ \A d \in Operators \ {c} : request'[d].at = request[d].at /\ request'[d].v = request[d].v
    BY <1>1, <1>2, OneEnters DEF Resting
  <2>2. DataInv' /\ HandleInv'
    BY <1>3, <2>1 DEF DataInv, HandleInv
  <2>3. AsideInv'
    BY <1>3, <2>1 DEF AsideInv
  <2> QED BY <2>2, <2>3
<1>6. RequestInv' /\ ClashInv' /\ ZipInv'
  BY <1>1, <1>2, <1>3, OneEnters DEF RequestInv, ClashInv, ZipInv, Resting
<1>7. AloneInv'
  BY <1>1, <1>2, <1>3, OneEnters DEF AloneInv, Resting, Running
<1>8. HoldsInv'
  BY <1>1, <1>2, <1>3, OneEnters DEF HoldsInv, HoldsOf, Resting
<1>files. FilesInv'
  BY <1>1, <1>2, <1>3, OneEnters DEF FilesInv, FilesOf, Resting
<1> QED BY <1>4, <1>5, <1>6, <1>7, <1>8, <1>files

\* os.Remove of the snapshot ...
LEMMA RemoveSnapshotIInv ==
    ASSUME BackupIInv, NEW c \in Operators, RemoveSnapshot(c)
    PROVE  BackupIInv'
<1> USE DEF BackupIInv
<1>1. Moves(c, "vacuum", request[c].failed, request[c].v) /\ request[c].at = "remove" /\ up
  BY OneGoesOn, Times DEF RemoveSnapshot, Doing, Stages, RestoreAt, BackupAt, Content
<1>2. UNCHANGED <<db, handle, files, upload, changes, zips, aside, clash, stirred, up, now,
                  requests, failures>>
  BY DEF RemoveSnapshot, uploads, stored, world
<1> USE <1>1, <1>2 DEF Moves, RestoreAt, BackupAt, Closed, Moved, Zipping,
        Snapped, SoFar
<1>3. BackupTypeOK'
  BY Times
     DEF RemoveSnapshot, RequestInv, BackupTypeOK, Asked, Stages, RestoreAt, BackupAt, NoSnap,
         Content, Zip
<1>4. DataInv'
  BY Times DEF RemoveSnapshot, DataInv, RequestInv, SoFar, NoSnap
<1>5. RequestInv'
  BY DEF RequestInv
<1>6. HandleInv'
  BY DEF RemoveSnapshot, HandleInv
<1>7. AloneInv'
  BY DEF AloneInv, Resting
<1>8. ClashInv'
  BY DEF ClashInv
<1>9. ZipInv'
  BY DEF ZipInv
<1>10. HoldsInv'
  BY DEF RemoveSnapshot, HoldsInv, HoldsOf, NoSnap, AloneInv, Resting
<1>files. FilesInv'
  BY DEF RemoveSnapshot, FilesInv, FilesOf, NoSnap, AloneInv, Resting
<1>11. AsideInv'
  BY Times DEF RemoveSnapshot, AsideInv, ClashInv
<1> QED BY <1>3, <1>4, <1>5, <1>6, <1>7, <1>8, <1>9, <1>10, <1>files, <1>11

\* VACUUM INTO as it begins: it reads an open database.
LEMMA VacuumIInv ==
    ASSUME BackupIInv, NEW c \in Operators, Vacuum(c)
    PROVE  BackupIInv'
<1> USE DEF BackupIInv
<1>1. /\ UNCHANGED <<db, handle, files, upload, changes, zips, aside, clash, stirred, up, now,
                     requests, failures>>
      /\ request[c].at = "vacuum" /\ up
  BY DEF Vacuum, uploads, stored, world, Doing
<1> USE <1>1 DEF RestoreAt, BackupAt, Closed, Moved, Zipping, Snapped, SoFar
<1>2. CASE Finish(c, "idle") /\ UNCHANGED snapshot
  <2>1. /\ request' \in [Operators -> Asked] /\ request'[c].at = "idle"
        /\ \A d \in Operators \ {c} : request'[d] = request[d]
    BY <1>2, OneFinishes
  <2>2. BackupTypeOK'
    BY <1>2, <2>1 DEF BackupTypeOK, Asked, Stages, RestoreAt, BackupAt
  <2>3. DataInv' /\ HandleInv' /\ AsideInv'
    BY <1>2, <2>1 DEF DataInv, HandleInv, AsideInv
  <2>4. RequestInv' /\ AloneInv' /\ ClashInv' /\ ZipInv'
    BY <2>1 DEF RequestInv, AloneInv, Resting, ClashInv, ZipInv
  <2>5. HoldsInv'
    BY <1>2, <2>1 DEF HoldsInv, HoldsOf
  <2>files. FilesInv'
    BY <1>2, <2>1 DEF FilesInv, FilesOf
  <2> QED BY <2>2, <2>3, <2>4, <2>5, <2>files
<1>3. CASE /\ handle = "open" /\ snapshot' = [v |-> Torn, by |-> {c}]
           /\ request' = [request EXCEPT ![c].at = "copy", ![c].v = db]
  <2>1. db \in 0..changes /\ db \in Content \cup Seconds
    BY <1>3 DEF HandleInv, BackupTypeOK
  <2>2. Moves(c, "copy", request[c].failed, db)
    BY <1>3, <2>1, OneRemembers DEF Stages, RestoreAt, BackupAt
  <2> USE <2>2 DEF Moves
  <2>3. BackupTypeOK'
    BY <1>3 DEF BackupTypeOK, Asked, Stages, RestoreAt, BackupAt, Content
  <2>4. DataInv' /\ HandleInv' /\ AsideInv'
    BY <1>3 DEF DataInv, HandleInv, AsideInv
  <2>5. RequestInv' /\ AloneInv' /\ ClashInv' /\ ZipInv'
    BY <2>1 DEF RequestInv, AloneInv, Resting, ClashInv, ZipInv
  <2>6. \A d \in Operators \ {c} : request[d].alone => Resting(d)
    BY DEF AloneInv, Resting
  <2>7. HoldsInv'
    BY <1>3, <2>6 DEF HoldsInv, HoldsOf, Resting
  <2>files. FilesInv'
    BY <1>3, <2>6 DEF FilesInv, FilesOf, Resting
  <2> QED BY <2>3, <2>4, <2>5, <2>7, <2>files
<1>4. handle \in {"open", "closed"}
  BY DEF BackupTypeOK
<1> QED BY <1>2, <1>3, <1>4 DEF Vacuum

\* VACUUM INTO as it ends ...
LEMMA CopiedIInv ==
    ASSUME BackupIInv, NEW c \in Operators, Copied(c)
    PROVE  BackupIInv'
<1> USE DEF BackupIInv
<1>1. Moves(c, "create", request[c].failed, request[c].v) /\ request[c].at = "copy" /\ up
  BY OneGoesOn, Times DEF Copied, Doing, Stages, RestoreAt, BackupAt, Content
<1>2. UNCHANGED <<db, handle, files, upload, changes, zips, aside, clash, stirred, up, now,
                  requests, failures>>
  BY DEF Copied, uploads, stored, world
<1> USE <1>1, <1>2 DEF Moves, RestoreAt, BackupAt, Closed, Moved, Zipping,
        Snapped, SoFar
<1>3. BackupTypeOK'
  BY Times
     DEF Copied, RequestInv, BackupTypeOK, Asked, Stages, RestoreAt, BackupAt, NoSnap, Content,
         Zip
<1>4. DataInv'
  BY Times DEF Copied, DataInv, RequestInv, SoFar, NoSnap
<1>5. RequestInv'
  BY DEF RequestInv
<1>6. HandleInv'
  BY DEF Copied, HandleInv
<1>7. AloneInv'
  BY DEF AloneInv, Resting
<1>8. ClashInv'
  BY DEF ClashInv
<1>9. ZipInv'
  BY DEF ZipInv
<1>10. HoldsInv'
  BY DEF Copied, HoldsInv, HoldsOf, NoSnap, AloneInv, Resting
<1>files. FilesInv'
  BY DEF Copied, FilesInv, FilesOf, NoSnap, AloneInv, Resting
<1>11. AsideInv'
  BY Times DEF Copied, AsideInv, ClashInv
<1> QED BY <1>3, <1>4, <1>5, <1>6, <1>7, <1>8, <1>9, <1>10, <1>files, <1>11

\* ... and as it fails.
LEMMA CopyFailsIInv ==
    ASSUME BackupIInv, NEW c \in Operators, CopyFails(c)
    PROVE  BackupIInv'
<1> USE DEF BackupIInv
<1>1. /\ UNCHANGED <<db, handle, files, upload, changes, snapshot, zips, aside, clash, stirred, up,
                     now, requests>>
      /\ failures' \in 0..MaxFailures
      /\ request[c].at = "copy" /\ up
  BY FailuresType DEF CopyFails, uploads, stored, Doing
<1>2. /\ request' \in [Operators -> Asked] /\ request'[c].at = "idle"
      /\ \A d \in Operators \ {c} : request'[d] = request[d]
  BY OneFinishes DEF CopyFails
<1> USE <1>1, <1>2 DEF RestoreAt, BackupAt, Closed, Moved, Zipping, Snapped, SoFar
<1>3. BackupTypeOK'
  BY DEF BackupTypeOK, Asked, Stages, RestoreAt, BackupAt
<1>4. DataInv' /\ HandleInv' /\ AsideInv'
  BY DEF DataInv, HandleInv, AsideInv
<1>5. RequestInv' /\ AloneInv' /\ ClashInv' /\ ZipInv'
  BY DEF RequestInv, AloneInv, Resting, ClashInv, ZipInv
<1>6. HoldsInv'
  BY DEF HoldsInv, HoldsOf
<1>files. FilesInv'
  BY DEF FilesInv, FilesOf
<1> QED BY <1>3, <1>4, <1>5, <1>6, <1>files

\* os.Create empties an archive.
LEMMA CreateZipIInv ==
    ASSUME BackupIInv, NEW c \in Operators, CreateZip(c)
    PROVE  BackupIInv'
<1> USE DEF BackupIInv
<1>1. Moves(c, "db", request[c].failed, request[c].v) /\ request[c].at = "create" /\ up
  BY OneGoesOn, Times DEF CreateZip, Doing, Stages, RestoreAt, BackupAt, Content
<1>2. UNCHANGED <<db, handle, files, upload, changes, snapshot, aside, clash, stirred, up, now,
                  requests, failures>>
  BY DEF CreateZip, uploads, stored, world
<1>3. request[c].name \in Archives
  BY <1>1 DEF RequestInv, BackupAt
<1>4. /\ zips' \in [Archives -> Zip]
      /\ zips'[request[c].name].there /\ zips'[request[c].name].db = Missing
      /\ zips'[request[c].name].files = Missing
      /\ zips'[request[c].name].by = {c} \cup zips[request[c].name].by
      /\ \A n \in Archives \ {request[c].name} : zips'[n] = zips[n]
  BY <1>3, ZipsType DEF CreateZip, Zip, NoZip, Content
<1> USE <1>1, <1>2, <1>3, <1>4 DEF Moves, RestoreAt, BackupAt, Closed, Moved, Zipping,
        Snapped, SoFar
<1>5. BackupTypeOK'
  BY Times DEF RequestInv, BackupTypeOK, Asked, Stages, RestoreAt, BackupAt, NoSnap, Content, Zip
<1>6. DataInv'
  BY Times DEF DataInv, RequestInv, SoFar, NoSnap
<1>7. RequestInv'
  BY DEF RequestInv
<1>8. HandleInv'
  BY DEF HandleInv
<1>9. AloneInv'
  BY DEF AloneInv, Resting
<1>10. ClashInv'
  BY DEF ClashInv
<1>11. ZipInv'
  BY DEF ZipInv
<1>12. HoldsInv'
  BY DEF HoldsInv, HoldsOf, NoSnap, AloneInv, Resting
<1>files. FilesInv'
  BY DEF FilesInv, FilesOf, NoSnap, AloneInv, Resting
<1>13. AsideInv'
  BY Times DEF AsideInv, ClashInv
<1> QED BY <1>5, <1>6, <1>7, <1>8, <1>9, <1>10, <1>11, <1>12, <1>files, <1>13

\* addFileToZip of the snapshot ...
LEMMA AddDbIInv ==
    ASSUME BackupIInv, NEW c \in Operators, AddDb(c)
    PROVE  BackupIInv'
<1> USE DEF BackupIInv
<1> DEFINE n == request[c].name
           z == zips[n]
<1>1. /\ \/ Moves(c, "end", TRUE, request[c].v)
         \/ /\ snapshot # NoSnap /\ Add(c, "db", snapshot.v)
            /\ \E a \in {"files", "end"} :
                  (a = "end" => ~n[1]) /\ Moves(c, a, request[c].failed, request[c].v)
      /\ request[c].at = "db" /\ up
  BY OneGoesOn, OneFails DEF AddDb, Doing, Stages, RestoreAt, BackupAt
<1>2. /\ UNCHANGED <<db, handle, files, upload, changes, snapshot, aside, clash, stirred, up, now,
                     requests>>
      /\ failures' \in 0..MaxFailures
  BY FailuresType DEF AddDb, uploads, stored
<1>3. n \in Archives /\ z \in Zip
  BY <1>1, ZipsType DEF RequestInv, BackupAt
<1>4. \/ UNCHANGED zips /\ request'[c].failed
      \/ \E w \in SoFar : Add(c, "db", w) /\ (w = snapshot.v \/ request'[c].failed)
  BY <1>1 DEF AddDb, Moves, DataInv, SoFar
<1> DEFINE Written(y) ==
             /\ zips' = [zips EXCEPT ![n] = y]
             /\ y.there = z.there /\ y.by = z.by /\ y.files = z.files /\ y.db \in SoFar
             /\ request'[c].failed \/ (z.by = {c} => y.db = snapshot.v)
<1>5. \E y \in Zip : Written(y)
  <2>1. CASE UNCHANGED zips /\ request'[c].failed
    <3>1. zips' = [zips EXCEPT ![n] = z]
      BY <1>3, <2>1, ZipsType
    <3> QED BY <1>3, <2>1, <3>1 DEF DataInv
  <2>2. ASSUME NEW w \in SoFar, Add(c, "db", w) /\ (w = snapshot.v \/ request'[c].failed)
        PROVE  \E y \in Zip : Written(y)
    <3> DEFINE y == Zipped(c, z, "db", w)
    <3>1. w \in Content
      BY Times DEF SoFar, Content
    <3>2. /\ y \in Zip /\ y.there = z.there /\ y.by = z.by /\ y.files = z.files
          /\ z.by = {c} => y.db = w
          /\ y.db \in {z.db, w, Torn}
      BY <1>3, <3>1, ZippedDb
    <3>3. zips' = [zips EXCEPT ![n] = y]
      BY <2>2 DEF Add
    <3>4. y.db \in SoFar
      BY <1>3, <3>2 DEF DataInv, SoFar
    <3> HIDE DEF y
    <3> QED BY <2>2, <3>2, <3>3, <3>4
  <2> QED BY <1>4, <2>1, <2>2
<1>6. PICK y \in Zip : Written(y)
  BY <1>5
<1>8. /\ zips' \in [Archives -> Zip] /\ zips'[n] = y
      /\ \A m \in Archives \ {n} : zips'[m] = zips[m]
  BY <1>3, <1>6, OneArchive
<1>9. request[c].alone /\ z.there => z.by = {c}
  BY <1>1, <1>3 DEF HoldsInv, HoldsOf, ZipInv, AloneInv, Resting, Zipping, Zip
<1> USE <1>1, <1>2, <1>3 DEF Moves, RestoreAt, BackupAt, Closed, Moved, Zipping,
        Snapped, SoFar
<1>10. BackupTypeOK'
  BY <1>8, Times DEF BackupTypeOK, Asked, Stages, RestoreAt, BackupAt, Zip
<1>11. DataInv'
  BY <1>6, <1>8 DEF DataInv
<1>12. RequestInv'
  BY DEF RequestInv
<1>13. HandleInv'
  BY DEF HandleInv
<1>14. AloneInv' /\ ClashInv'
  BY DEF AloneInv, Resting, ClashInv
<1>15. ZipInv'
  BY <1>6, <1>8 DEF ZipInv
<1>16. HoldsInv'
  <2>1. ASSUME NEW d \in Operators \ {c}, request[d].alone
        PROVE  request[d].at \notin Zipping \cup {"copy", "create"}
    BY <2>1 DEF AloneInv, Resting
  <2>2. request[c].alone => snapshot = [v |-> request[c].v, by |-> {}]
    BY DEF HoldsInv, HoldsOf
  <2>3. ASSUME NEW d \in Operators \ {c}, request[d].alone
        PROVE  HoldsOf(d)'
    <3>1. request'[d] = request[d] /\ snapshot' = snapshot
      OBVIOUS
    <3>2. request[d].at \notin Zipping \cup {"copy", "create"} /\ HoldsOf(d)
      BY <2>1, <2>3 DEF HoldsInv, HoldsOf
    <3> HIDE DEF n, z, Written
    <3> QED BY <3>1, <3>2 DEF HoldsOf
  <2>4. request[c].alone => HoldsOf(c)'
    <3> SUFFICES ASSUME request[c].alone PROVE HoldsOf(c)'
      OBVIOUS
    <3>1. request'[c].at \in {"files", "end"} /\ request'[c].v = request[c].v /\ request'[c].name = n
      OBVIOUS
    <3>2. snapshot' = [v |-> request[c].v, by |-> {}]
      BY <2>2
    <3>3. zips'[n] = y /\ (y.there => c \in y.by)
      BY <1>6, <1>8, <1>9
    <3>4. y.there /\ ~request'[c].failed => y.db = request[c].v
      BY <1>6, <1>9, <2>2
    <3>5. request'[c].at = "end" /\ ~request'[c].failed => ~n[1]
      OBVIOUS
    <3> HIDE DEF n, z, Written
    <3> QED BY <3>1, <3>2, <3>3, <3>4, <3>5 DEF HoldsOf, Zipping, Snapped
  <2> QED BY <2>3, <2>4, <1>2 DEF HoldsInv, HoldsOf
<1>files. FilesInv'
  <2>1. \A d \in Operators \ {c} : request[d].alone => request[d].at \notin Zipping
    BY DEF AloneInv, Resting
  <2>2. request'[c].at = "end" => request'[c].failed \/ ~n[1]
    OBVIOUS
  <2>3. y.there = z.there /\ y.files = z.files
    BY <1>6
  <2>4. request[c].alone /\ z.there => z.files = Missing
    BY DEF FilesInv, FilesOf
  <2> HIDE DEF n, z, Written
  <2>5. ASSUME NEW d \in Operators \ {c}, request[d].alone
        PROVE  FilesOf(d)'
    BY <2>1, <2>5 DEF FilesOf
  <2>6. request[c].alone => FilesOf(c)'
    BY <1>8, <2>2, <2>3, <2>4 DEF FilesOf, n
  <2> QED BY <2>5, <2>6 DEF FilesInv
<1>17. AsideInv'
  BY DEF AsideInv
<1> QED BY <1>10, <1>11, <1>12, <1>13, <1>14, <1>15, <1>16, <1>files, <1>17

\* WalkDir ...
LEMMA ListFilesIInv ==
    ASSUME BackupIInv, NEW c \in Operators, ListFiles(c)
    PROVE  BackupIInv'
<1> USE DEF BackupIInv
<1> DEFINE a == IF files = Missing THEN "end" ELSE "open"
<1>1. Moves(c, a, request[c].failed, request[c].v) /\ request[c].at = "files" /\ up
  BY OneGoesOn DEF ListFiles, Doing, Stages, RestoreAt, BackupAt
<1>2. UNCHANGED <<db, handle, files, upload, changes, snapshot, zips, aside, clash, stirred, up,
                  now,
                  requests, failures>>
  BY DEF ListFiles, stored, uploads, world
<1> USE <1>1, <1>2 DEF Moves, RestoreAt, BackupAt, Closed, Moved, Zipping, Snapped, SoFar
<1>3. BackupTypeOK'
  BY DEF BackupTypeOK, Asked, Stages, RestoreAt, BackupAt
<1>4. DataInv' /\ HandleInv' /\ AsideInv'
  BY DEF DataInv, HandleInv, AsideInv
<1>5. RequestInv' /\ AloneInv' /\ ClashInv' /\ ZipInv'
  BY DEF RequestInv, AloneInv, Resting, ClashInv, ZipInv
<1>6. HoldsInv'
  BY DEF HoldsInv, HoldsOf
<1>7. FilesInv'
  BY DEF FilesInv, FilesOf
<1> QED BY <1>3, <1>4, <1>5, <1>6, <1>7

\* ... and addFileToZip of a package.
LEMMA AddFileIInv ==
    ASSUME BackupIInv, NEW c \in Operators, AddFile(c)
    PROVE  BackupIInv'
<1> USE DEF BackupIInv
<1> DEFINE n == request[c].name
           z == zips[n]
<1>1. /\ \/ Moves(c, "end", TRUE, request[c].v) /\ (UNCHANGED zips \/ Add(c, "files", Torn))
         \/ Add(c, "files", files) /\ Moves(c, "end", request[c].failed, request[c].v)
      /\ request[c].at = "open" /\ up
  BY OneGoesOn, OneFails DEF AddFile, Doing, Stages, RestoreAt, BackupAt
<1>2. /\ UNCHANGED <<db, handle, files, upload, changes, snapshot, aside, clash, stirred, up, now,
                     requests>>
      /\ failures' \in 0..MaxFailures
  BY FailuresType DEF AddFile, uploads, stored
<1>3. n \in Archives /\ z \in Zip
  BY <1>1, ZipsType DEF RequestInv, BackupAt
<1> DEFINE Written(y) ==
             /\ zips' = [zips EXCEPT ![n] = y]
             /\ y.there = z.there /\ y.by = z.by /\ y.db = z.db
             /\ request'[c].failed \/ (z.by = {c} => y.files = files)
<1>4. ASSUME NEW w \in Content, Add(c, "files", w), w = files \/ request'[c].failed
      PROVE  \E y \in Zip : Written(y)
  <2> DEFINE y == Zipped(c, z, "files", w)
  <2>1. /\ y \in Zip /\ y.there = z.there /\ y.by = z.by /\ y.db = z.db
        /\ z.by = {c} => y.files = w
    BY <1>3, ZippedFiles
  <2>2. zips' = [zips EXCEPT ![n] = y]
    BY <1>4 DEF Add
  <2> HIDE DEF y
  <2> QED BY <1>4, <2>1, <2>2
<1>5. ASSUME UNCHANGED zips, request'[c].failed
      PROVE  \E y \in Zip : Written(y)
  <2>1. zips' = [zips EXCEPT ![n] = z]
    BY <1>3, <1>5, ZipsType
  <2>2. Written(z)
    BY <1>5, <2>1
  <2> HIDE DEF Written
  <2> QED BY <1>3, <2>2
<1>6. PICK y \in Zip : Written(y)
  <2>1. files \in Content /\ Torn \in Content
    BY DEF BackupTypeOK, Content
  <2>2. CASE Add(c, "files", files)
    BY <1>4, <2>1, <2>2
  <2>3. CASE Moves(c, "end", TRUE, request[c].v) /\ (UNCHANGED zips \/ Add(c, "files", Torn))
    <3>1. request'[c].failed
      BY <2>3 DEF Moves
    <3> HIDE DEF Written
    <3> QED BY <1>4, <1>5, <2>1, <2>3, <3>1
  <2> HIDE DEF Written
  <2> QED BY <1>1, <2>2, <2>3
<1>8. /\ zips' \in [Archives -> Zip] /\ zips'[n] = y
      /\ \A m \in Archives \ {n} : zips'[m] = zips[m]
  BY <1>3, <1>6, OneArchive
<1>9. request[c].alone /\ z.there => z.by = {c}
  BY <1>1, <1>3 DEF HoldsInv, HoldsOf, ZipInv, AloneInv, Resting, Zipping, Zip
<1> USE <1>1, <1>2, <1>3 DEF Moves, RestoreAt, BackupAt, Closed, Moved, Zipping,
        Snapped, SoFar
<1>10. BackupTypeOK'
  BY <1>6, <1>8, Times DEF BackupTypeOK, Asked, Stages, RestoreAt, BackupAt, Zip
<1>11. DataInv'
  BY <1>6, <1>8 DEF DataInv
<1>12. RequestInv'
  BY DEF RequestInv
<1>13. HandleInv'
  BY DEF HandleInv
<1>14. AloneInv' /\ ClashInv'
  BY DEF AloneInv, Resting, ClashInv
<1>15. ZipInv'
  BY <1>6, <1>8 DEF ZipInv
<1>16. HoldsInv' /\ FilesInv'
  <2>1. ASSUME NEW d \in Operators \ {c}, request[d].alone
        PROVE  request[d].at \notin Zipping \cup {"copy", "create"}
    BY <2>1 DEF AloneInv, Resting
  <2>2. request[c].alone => snapshot = [v |-> request[c].v, by |-> {}]
    BY DEF HoldsInv, HoldsOf
  <2>3. request[c].alone /\ z.there =>
            c \in z.by /\ (~request[c].failed => z.db = request[c].v)
    BY DEF HoldsInv, HoldsOf
  <2>4. ~request'[c].failed => ~request[c].failed
    OBVIOUS
  <2>5. zips'[n] = y /\ y.there = z.there /\ y.by = z.by /\ y.db = z.db
    BY <1>6, <1>8
  <2>6. request[c].alone /\ z.there => request'[c].failed \/ y.files = files
    BY <1>6, <1>9
  <2> HIDE DEF n, z, Written
  <2>7. ASSUME NEW d \in Operators \ {c}, request[d].alone
        PROVE  HoldsOf(d)' /\ FilesOf(d)'
    BY <2>1, <2>7 DEF HoldsOf, FilesOf, HoldsInv
  <2>8. request[c].alone => HoldsOf(c)'
    BY <2>2, <2>3, <2>4, <2>5 DEF HoldsOf, n
  <2>9. request[c].alone => FilesOf(c)'
    BY <2>5, <2>6 DEF FilesOf, n
  <2>10. \A d \in Operators : request'[d].alone => request[d].alone
    OBVIOUS
  <2>11. upload' = "writing" => stirred' = "yes"
    BY DEF FilesInv
  <2> QED BY <2>7, <2>8, <2>9, <2>10, <2>11 DEF HoldsInv, FilesInv
<1>17. AsideInv'
  BY DEF AsideInv
<1> QED BY <1>10, <1>11, <1>12, <1>13, <1>14, <1>15, <1>16, <1>17

\* The deferred calls.
LEMMA EndBackupIInv ==
    ASSUME BackupIInv, NEW c \in Operators, EndBackup(c)
    PROVE  BackupIInv'
<1> USE DEF BackupIInv
<1> DEFINE n == request[c].name
           z == zips[n]
<1>1. /\ request' \in [Operators -> Asked]
      /\ request'[c].at \in {"idle", "ok"}
      /\ \A d \in Operators \ {c} : request'[d] = request[d]
      /\ request[c].at = "end" /\ up
  BY OneFinishes DEF EndBackup, Doing
<1>2. /\ UNCHANGED <<db, handle, files, upload, changes, aside, clash, stirred, up, now, requests>>
      /\ failures' \in 0..MaxFailures /\ snapshot' = NoSnap
  BY FailuresType DEF EndBackup, uploads, stored
<1>3. n \in Archives /\ z \in Zip
  BY <1>1, ZipsType DEF RequestInv, BackupAt
<1>4. PICK whole \in BOOLEAN :
        zips' = [zips EXCEPT ![n] = IF c \in z.by THEN [z EXCEPT !.whole = whole, !.by = z.by \ {c}]
                                                  ELSE z]
  BY DEF EndBackup
<1> DEFINE y == IF c \in z.by THEN [z EXCEPT !.whole = whole, !.by = z.by \ {c}] ELSE z
<1>5. y \in Zip /\ y.by = z.by \ {c} /\ y.db = z.db /\ y.files = z.files /\ y.there = z.there
  BY <1>3 DEF Zip
<1>6. zips' = [zips EXCEPT ![n] = y]
  BY <1>4
<1> HIDE DEF y
<1>7. /\ zips' \in [Archives -> Zip] /\ zips'[n] = y
      /\ \A m \in Archives \ {n} : zips'[m] = zips[m]
  BY <1>3, <1>5, <1>6, OneArchive
<1>8. ASSUME NEW d \in Operators \ {c}, request[d].alone
      PROVE  Resting(d)
  BY <1>1, <1>8 DEF AloneInv, Resting
<1> USE <1>1, <1>2, <1>3 DEF RestoreAt, BackupAt, Closed, Moved, Zipping, Snapped, SoFar
<1>10. BackupTypeOK'
  BY <1>7, Times DEF BackupTypeOK, Asked, Stages, RestoreAt, BackupAt, Zip, NoSnap, Content
<1>11. DataInv'
  BY <1>5, <1>7 DEF DataInv, NoSnap
<1>12. RequestInv'
  BY DEF RequestInv
<1>13. HandleInv'
  BY DEF HandleInv
<1>14. AloneInv' /\ ClashInv'
  BY DEF AloneInv, Resting, ClashInv
<1>15. ZipInv'
  BY <1>5, <1>7 DEF ZipInv
<1>16. HoldsInv'
  BY <1>8 DEF HoldsInv, HoldsOf, Resting
<1>files. FilesInv'
  BY <1>8 DEF FilesInv, FilesOf, Resting
<1>17. AsideInv'
  BY DEF AsideInv
<1> QED BY <1>10, <1>11, <1>12, <1>13, <1>14, <1>15, <1>16, <1>files, <1>17

\* ... those of a restore ...
LEMMA RestoreBackupIInv ==
    ASSUME BackupIInv, NEW c \in Operators, NEW n \in Archives, RestoreBackup(c, n)
    PROVE  BackupIInv'
<1> USE DEF BackupIInv
<1> DEFINE r == [NoRequest EXCEPT !.op = "restore", !.at = "close", !.name = n]
<1>1. r \in Asked /\ r.at = "close" /\ r.op = "restore" /\ r.name = n /\ r.v = Missing
  BY DEF NoRequest, Asked, Stages, RestoreAt, BackupAt, Content
<1>2. Enter(c, r) /\ clash' = (clash \/ \E d \in Running : request[d].op = "restore")
  BY DEF RestoreBackup
<1> HIDE DEF r
<1>3. UNCHANGED <<db, handle, files, upload, changes, snapshot, zips, aside, up, now, failures>>
  BY DEF RestoreBackup, uploads, stored
<1>4. BackupTypeOK'
  BY <1>1, <1>2, <1>3, OneEnters DEF BackupTypeOK, Asked, Stages, RestoreAt, BackupAt
<1> USE DEF RestoreAt, BackupAt, Closed, Moved, Zipping, Snapped, SoFar
<1>5. DataInv' /\ HandleInv' /\ AsideInv'
  <2>1. /\ request'[c].at = "close" /\ request[c].at \notin RestoreAt /\ up
        /\ \A d \in Operators \ {c} : request'[d].at = request[d].at /\ request'[d].v = request[d].v
    BY <1>1, <1>2, OneEnters DEF Resting
  <2>2. DataInv' /\ HandleInv'
    BY <1>3, <2>1 DEF DataInv, HandleInv
  <2>3. ~clash' => ~clash
    BY <1>2
  <2>4. AsideInv'
    BY <1>3, <2>1, <2>3 DEF AsideInv
  <2> QED BY <2>2, <2>4
<1>6. RequestInv' /\ ZipInv'
  BY <1>1, <1>2, <1>3, OneEnters DEF RequestInv, ZipInv, Resting
<1>7. ClashInv'
  <2>1. ASSUME ~clash', NEW d \in Operators \ {c}
        PROVE  ~clash /\ request'[d].at \notin RestoreAt
    <3>1. d \in Running => request[d].op # "restore"
      BY <1>2, <2>1
    <3>2. request'[d].at = request[d].at
      BY <1>1, <1>2, OneEnters
    <3> QED BY <1>2, <2>1, <3>1, <3>2 DEF Running, Resting, RequestInv
  <2> QED BY <2>1 DEF ClashInv
<1>8. AloneInv'
  BY <1>1, <1>2, <1>3, OneEnters DEF AloneInv, Resting, Running
<1>9. HoldsInv'
  BY <1>1, <1>2, <1>3, OneEnters DEF HoldsInv, HoldsOf, Resting
<1>files. FilesInv'
  BY <1>1, <1>2, <1>3, OneEnters DEF FilesInv, FilesOf, Resting
<1> QED BY <1>4, <1>5, <1>6, <1>7, <1>8, <1>9, <1>files

\* bm.db.Close ...
LEMMA CloseDBIInv ==
    ASSUME BackupIInv, NEW c \in Operators, CloseDB(c)
    PROVE  BackupIInv'
<1> USE DEF BackupIInv
<1>1. Moves(c, "aside", request[c].failed, request[c].v) /\ request[c].at = "close" /\ up
  BY OneGoesOn, Times DEF CloseDB, Doing, Stages, RestoreAt, BackupAt, Content
<1>2. UNCHANGED <<db, files, upload, changes, snapshot, zips, aside, clash, stirred, up, now,
                  requests, failures>>
  BY DEF CloseDB, uploads, stored, world
<1> USE <1>1, <1>2 DEF Moves, RestoreAt, BackupAt, Closed, Moved, Zipping,
        Snapped, SoFar
<1>3. BackupTypeOK'
  BY Times
     DEF CloseDB, RequestInv, BackupTypeOK, Asked, Stages, RestoreAt, BackupAt, NoSnap,
         Content, Zip
<1>4. DataInv'
  BY Times DEF CloseDB, DataInv, RequestInv, SoFar, NoSnap
<1>5. RequestInv'
  BY DEF RequestInv
<1>6. HandleInv'
  BY DEF CloseDB, HandleInv
<1>7. AloneInv'
  BY DEF AloneInv, Resting
<1>8. ClashInv'
  BY DEF ClashInv
<1>9. ZipInv'
  BY DEF ZipInv
<1>10. HoldsInv'
  BY DEF CloseDB, HoldsInv, HoldsOf, NoSnap, AloneInv, Resting
<1>files. FilesInv'
  BY DEF CloseDB, FilesInv, FilesOf, NoSnap, AloneInv, Resting
<1>11. AsideInv'
  BY Times DEF CloseDB, AsideInv, ClashInv
<1> QED BY <1>3, <1>4, <1>5, <1>6, <1>7, <1>8, <1>9, <1>10, <1>files, <1>11

\* os.Rename of the database ...
LEMMA PutAsideIInv ==
    ASSUME BackupIInv, NEW c \in Operators, PutAside(c)
    PROVE  BackupIInv'
<1> USE DEF BackupIInv
<1>1. Moves(c, "unzip", request[c].failed, now) /\ request[c].at = "aside" /\ up
  BY OneRemembers, Times DEF PutAside, Doing, Stages, RestoreAt, BackupAt, Content
<1>2. UNCHANGED <<handle, files, upload, changes, snapshot, zips, clash, stirred, up, now,
                  requests, failures>>
  BY DEF PutAside, uploads, stored, world
<1>3. db' \in Content /\ aside' \in [Seconds -> Content]
  BY Times DEF PutAside, BackupTypeOK, Content
<1> USE <1>1, <1>2, <1>3 DEF Moves, RestoreAt, BackupAt, Closed, Moved, Zipping,
        Snapped, SoFar
<1>4. BackupTypeOK'
  BY Times DEF BackupTypeOK, Asked, Stages, RestoreAt, BackupAt
<1>5. DataInv'
  BY Times DEF PutAside, DataInv, RequestInv, SoFar, NoSnap
<1>6. RequestInv'
  BY Times DEF RequestInv
<1>7. HandleInv'
  BY DEF PutAside, HandleInv
<1>8. AloneInv'
  BY DEF AloneInv, Resting
<1>9. ClashInv'
  BY DEF ClashInv
<1>10. ZipInv'
  BY DEF ZipInv
<1>11. HoldsInv'
  BY DEF PutAside, HoldsInv, HoldsOf, NoSnap, AloneInv, Resting
<1>files. FilesInv'
  BY DEF PutAside, FilesInv, FilesOf, NoSnap, AloneInv, Resting
<1>12. AsideInv'
  BY Times DEF PutAside, AsideInv, ClashInv
<1> QED BY <1>4, <1>5, <1>6, <1>7, <1>8, <1>9, <1>10, <1>11, <1>files, <1>12

\* zip.OpenReader ...
LEMMA OpenZipIInv ==
    ASSUME BackupIInv, NEW c \in Operators, OpenZip(c)
    PROVE  BackupIInv'
<1> USE DEF BackupIInv
<1>1. /\ \E a \in {"undo", "unzipfiles", "unzipdb"} : Moves(c, a, request[c].failed, request[c].v)
      /\ request[c].at = "unzip" /\ up
  BY OneGoesOn, Times DEF OpenZip, Doing, Stages, RestoreAt, BackupAt, Content
<1>2. UNCHANGED <<handle, files, upload, changes, snapshot, zips, aside, clash, stirred, up, now,
                  requests, failures>>
  BY DEF OpenZip, uploads, stored, world
<1> USE <1>1, <1>2 DEF Moves, RestoreAt, BackupAt, Closed, Moved, Zipping,
        Snapped, SoFar
<1>3. BackupTypeOK'
  BY Times
     DEF OpenZip, RequestInv, BackupTypeOK, Asked, Stages, RestoreAt, BackupAt, NoSnap,
         Content, Zip
<1>4. DataInv'
  BY Times DEF OpenZip, DataInv, RequestInv, SoFar, NoSnap
<1>5. RequestInv'
  BY DEF RequestInv
<1>6. HandleInv'
  BY DEF OpenZip, HandleInv
<1>7. AloneInv'
  BY DEF AloneInv, Resting
<1>8. ClashInv'
  BY DEF ClashInv
<1>9. ZipInv'
  BY DEF ZipInv
<1>10. HoldsInv'
  BY DEF OpenZip, HoldsInv, HoldsOf, NoSnap, AloneInv, Resting
<1>files. FilesInv'
  BY DEF OpenZip, FilesInv, FilesOf, NoSnap, AloneInv, Resting
<1>11. AsideInv'
  BY Times DEF OpenZip, AsideInv, ClashInv
<1> QED BY <1>3, <1>4, <1>5, <1>6, <1>7, <1>8, <1>9, <1>10, <1>files, <1>11

\* The database is extracted ...
LEMMA UnzipDbIInv ==
    ASSUME BackupIInv, NEW c \in Operators, UnzipDb(c)
    PROVE  BackupIInv'
<1> USE DEF BackupIInv
<1>1. /\ \E a \in {"undo", "unzipfiles"} : Moves(c, a, request[c].failed, request[c].v)
      /\ request[c].at = "unzipdb" /\ up
  BY OneGoesOn, Times DEF UnzipDb, Doing, Stages, RestoreAt, BackupAt, Content
<1>2. UNCHANGED <<handle, files, upload, changes, snapshot, zips, aside, clash, stirred, up, now,
                  requests>>
  BY DEF UnzipDb, uploads, stored, world
<1>3. request[c].name \in Archives /\ zips[request[c].name] \in Zip
  BY <1>1, ZipsType DEF RequestInv, BackupAt, RestoreAt
<1>4. failures' \in 0..MaxFailures
  BY FailuresType DEF UnzipDb
<1>5. db' \in SoFar
  BY <1>3 DEF UnzipDb, DataInv, SoFar
<1> USE <1>1, <1>2, <1>3, <1>4, <1>5 DEF Moves, RestoreAt, BackupAt, Closed, Moved, Zipping,
        Snapped, SoFar
<1>6. BackupTypeOK'
  BY Times DEF BackupTypeOK, Asked, Stages, RestoreAt, BackupAt, Content
<1>7. DataInv'
  BY Times DEF UnzipDb, DataInv, RequestInv, SoFar, NoSnap
<1>8. RequestInv'
  BY DEF RequestInv
<1>9. HandleInv'
  BY DEF UnzipDb, HandleInv
<1>10. AloneInv'
  BY DEF AloneInv, Resting
<1>11. ClashInv'
  BY DEF ClashInv
<1>12. ZipInv'
  BY DEF ZipInv
<1>13. HoldsInv'
  BY DEF UnzipDb, HoldsInv, HoldsOf, NoSnap, AloneInv, Resting
<1>files. FilesInv'
  BY DEF UnzipDb, FilesInv, FilesOf, NoSnap, AloneInv, Resting
<1>14. AsideInv'
  BY Times DEF UnzipDb, AsideInv, ClashInv
<1> QED BY <1>6, <1>7, <1>8, <1>9, <1>10, <1>11, <1>12, <1>13, <1>files, <1>14

\* ... and the uploads are.
LEMMA UnzipFilesIInv ==
    ASSUME BackupIInv, NEW c \in Operators, UnzipFiles(c)
    PROVE  BackupIInv'
<1> USE DEF BackupIInv
<1>1. /\ \E a \in {"undo", "exit"} : Moves(c, a, request[c].failed, request[c].v)
      /\ request[c].at = "unzipfiles" /\ up
  BY OneGoesOn, Times DEF UnzipFiles, Doing, Stages, RestoreAt, BackupAt, Content
<1>2. UNCHANGED <<db, handle, changes, snapshot, zips, aside, clash, stirred, up, now, requests>>
  BY DEF UnzipFiles, uploads, stored, world
<1>3. request[c].name \in Archives /\ zips[request[c].name] \in Zip
  BY <1>1, ZipsType DEF RequestInv, BackupAt, RestoreAt
<1>4. failures' \in 0..MaxFailures
  BY FailuresType DEF UnzipFiles
<1>5. files' \in Content /\ upload' \in {"none", "writing"} /\ upload' \in {"none", upload}
  BY <1>3 DEF UnzipFiles, BackupTypeOK, Zip, Content
<1> USE <1>1, <1>2, <1>3, <1>4, <1>5 DEF Moves, RestoreAt, BackupAt, Closed, Moved, Zipping,
        Snapped, SoFar
<1>6. BackupTypeOK'
  BY Times DEF BackupTypeOK, Asked, Stages, RestoreAt, BackupAt
<1>7. DataInv'
  BY Times DEF UnzipFiles, DataInv, RequestInv, SoFar, NoSnap
<1>8. RequestInv'
  BY DEF RequestInv
<1>9. HandleInv'
  BY DEF UnzipFiles, HandleInv
<1>10. AloneInv'
  BY DEF AloneInv, Resting
<1>11. ClashInv'
  BY DEF ClashInv
<1>12. ZipInv'
  BY DEF ZipInv
<1>13. HoldsInv'
  BY DEF UnzipFiles, HoldsInv, HoldsOf, NoSnap, AloneInv, Resting
<1>files. FilesInv'
  <2>1. \A d \in Operators : request'[d].alone => request[d].alone /\ request'[d].at \notin Zipping
    BY DEF AloneInv, Resting
  <2> QED BY <2>1 DEF FilesInv, FilesOf
<1>14. AsideInv'
  BY Times DEF UnzipFiles, AsideInv, ClashInv
<1> QED BY <1>6, <1>7, <1>8, <1>9, <1>10, <1>11, <1>12, <1>13, <1>files, <1>14

\* The rollback.
LEMMA UndoIInv ==
    ASSUME BackupIInv, NEW c \in Operators, Undo(c)
    PROVE  BackupIInv'
<1> USE DEF BackupIInv
<1>1. /\ UNCHANGED <<handle, files, upload, changes, snapshot, zips, clash, stirred, up, now,
                     requests, failures>>
      /\ request[c].at = "undo" /\ up
  BY DEF Undo, uploads, world, Doing
<1>2. /\ request' \in [Operators -> Asked] /\ request'[c].at = "rolledback"
      /\ \A d \in Operators \ {c} : request'[d] = request[d]
  BY OneFinishes DEF Undo
<1> DEFINE s == request[c].v
<1> USE <1>1, <1>2 DEF RestoreAt, BackupAt, Closed, Moved, Zipping, Snapped, SoFar
<1>3. s \in Seconds /\ handle = "closed"
  BY DEF RequestInv, HandleInv, BackupTypeOK
<1>4. /\ db' \in SoFar /\ db' \in Content /\ aside' \in [Seconds -> Content]
      /\ aside'[s] = Missing /\ \A t \in Seconds \ {s} : aside'[t] = aside[t]
  <2>1. /\ aside \in [Seconds -> Content] /\ aside[s] \in SoFar /\ db \in SoFar /\ db \in Content
        /\ Missing \in Content
    BY <1>3, Times DEF DataInv, BackupTypeOK, Content
  <2>2. CASE aside[s] = Missing
    BY <1>3, <2>1, <2>2 DEF Undo
  <2>3. CASE aside[s] # Missing
    BY <1>3, <2>1, <2>3 DEF Undo
  <2> QED BY <2>2, <2>3
<1>5. BackupTypeOK'
  BY <1>4 DEF BackupTypeOK, Asked, Stages, RestoreAt, BackupAt
<1>6. DataInv' /\ HandleInv'
  BY <1>3, <1>4 DEF DataInv, HandleInv
<1>7. RequestInv' /\ AloneInv' /\ ClashInv' /\ ZipInv'
  BY DEF RequestInv, AloneInv, Resting, ClashInv, ZipInv
<1>8. HoldsInv'
  BY DEF HoldsInv, HoldsOf
<1>files. FilesInv'
  BY DEF FilesInv, FilesOf
<1>9. AsideInv'
  BY <1>3, <1>4, Times DEF AsideInv, ClashInv
<1> QED BY <1>5, <1>6, <1>7, <1>8, <1>files, <1>9

\* ... and what else happens.
LEMMA DeleteBackupIInv ==
    ASSUME BackupIInv, NEW n \in Archives, DeleteBackup(n)
    PROVE  BackupIInv'
<1> USE DEF BackupIInv
<1>1. /\ UNCHANGED <<db, handle, files, upload, changes, snapshot, aside, request, clash, stirred,
                     up, now,
                     requests, failures>>
      /\ zips' = [zips EXCEPT ![n] = NoZip]
  BY DEF DeleteBackup, uploads, stored, world
<1>2. NoZip \in Zip /\ NoZip.by = {} /\ NoZip.db = Missing /\ ~NoZip.there
  BY DEF NoZip, Zip, Content
<1>3. /\ zips' \in [Archives -> Zip] /\ zips'[n] = NoZip
      /\ \A m \in Archives \ {n} : zips'[m] = zips[m]
  BY <1>1, <1>2, OneArchive
<1> USE <1>1 DEF RestoreAt, BackupAt, Closed, Moved, Zipping, Snapped, SoFar
<1>4. BackupTypeOK'
  BY <1>3 DEF BackupTypeOK, Zip
<1>5. DataInv' /\ HandleInv' /\ AsideInv'
  BY <1>2, <1>3 DEF DataInv, HandleInv, AsideInv
<1>6. RequestInv' /\ AloneInv' /\ ClashInv' /\ ZipInv'
  BY <1>2, <1>3 DEF RequestInv, AloneInv, Resting, ClashInv, ZipInv
<1>7. HoldsInv'
  BY <1>2, <1>3 DEF HoldsInv, HoldsOf, RequestInv
<1>files. FilesInv'
  BY <1>2, <1>3 DEF FilesInv, FilesOf, RequestInv
<1> QED BY <1>4, <1>5, <1>6, <1>7, <1>files

\* The process stops, on its own or in a crash.
LEMMA StopIInv ==
    ASSUME BackupIInv, Stop, failures' \in 0..MaxFailures,
           UNCHANGED <<db, files, changes, aside, clash, stirred, now, requests>>
    PROVE  BackupIInv'
<1> USE DEF BackupIInv, Stop
<1>1. /\ request' \in [Operators -> Asked]
      /\ \A c \in Operators : request'[c].at = "idle"
  BY DEF NoRequest, Asked, Stages, RestoreAt, BackupAt, Content
<1>2. /\ zips' \in [Archives -> Zip]
      /\ \A n \in Archives : zips'[n].by = {} /\ zips'[n].db = zips[n].db
  BY ZipsType DEF Zip
<1>3. /\ snapshot' \in [v : Content, by : SUBSET Operators]
      /\ snapshot'.v = snapshot.v
  BY DEF BackupTypeOK
<1> USE DEF RestoreAt, BackupAt, Closed, Moved, Zipping, Snapped, SoFar
<1>4. BackupTypeOK'
  BY <1>1, <1>2, <1>3 DEF BackupTypeOK, Zip, Asked, Stages, RestoreAt, BackupAt
<1>5. DataInv' /\ HandleInv' /\ AsideInv'
  BY <1>1, <1>2, <1>3 DEF DataInv, HandleInv, AsideInv
<1>6. RequestInv' /\ AloneInv' /\ ClashInv' /\ ZipInv'
  BY <1>1, <1>2 DEF RequestInv, AloneInv, Resting, ClashInv, ZipInv
<1>7. HoldsInv'
  BY <1>1 DEF HoldsInv, HoldsOf
<1>files. FilesInv'
  BY <1>1 DEF FilesInv, FilesOf
<1> QED BY <1>4, <1>5, <1>6, <1>7, <1>files

\* The master starts again.
LEMMA InitDBIInv ==
    ASSUME BackupIInv, InitDB
    PROVE  BackupIInv'
<1> USE DEF BackupIInv
<1>1. /\ UNCHANGED <<files, upload, changes, snapshot, zips, aside, request, clash, stirred,
                     requests, failures>>
      /\ up' /\ now' = now + 1 /\ now' \in Seconds
      /\ \A c \in Operators : request[c].at = "idle"
  BY Times, BackupAssumption DEF InitDB, uploads, HandleInv, Seconds
<1>2. handle' = "open" /\ db' \in 0..changes
  BY Times DEF InitDB, DataInv, SoFar
<1> USE <1>1, <1>2 DEF RestoreAt, BackupAt, Closed, Moved, Zipping, Snapped, SoFar
<1>3. BackupTypeOK'
  BY Times DEF BackupTypeOK, Content, InitDB
<1>4. DataInv' /\ HandleInv'
  BY DEF DataInv, HandleInv
<1>5. AsideInv'
  BY Times DEF AsideInv
<1>6. RequestInv' /\ AloneInv' /\ ClashInv' /\ ZipInv'
  BY DEF RequestInv, AloneInv, Resting, ClashInv, ZipInv
<1>7. HoldsInv'
  BY DEF HoldsInv, HoldsOf
<1>files. FilesInv'
  BY DEF FilesInv, FilesOf
<1> QED BY <1>3, <1>4, <1>5, <1>6, <1>7, <1>files

\* The data change.
LEMMA ChangeIInv ==
    ASSUME BackupIInv, Change
    PROVE  BackupIInv'
<1> USE DEF BackupIInv
<1>1. /\ UNCHANGED <<handle, files, upload, snapshot, zips, aside, request, clash, stirred, up, now,
                     requests, failures>>
      /\ changes' = changes + 1 /\ changes' \in 0..MaxChanges
      /\ handle = "open" /\ db' = changes'
  BY Times DEF Change, world
<1>2. 0..changes \subseteq 0..changes' /\ changes' \in 0..changes' /\ changes' \notin {Missing, Torn}
  BY <1>1, Times DEF Missing, Torn
<1> USE <1>1, <1>2 DEF RestoreAt, BackupAt, Closed, Moved, Zipping, Snapped, SoFar
<1>3. BackupTypeOK'
  BY DEF BackupTypeOK, Content
<1>4. DataInv' /\ HandleInv'
  BY DEF DataInv, HandleInv
<1>5. AsideInv'
  BY DEF AsideInv, HandleInv
<1>6. RequestInv' /\ AloneInv' /\ ClashInv' /\ ZipInv'
  BY DEF RequestInv, AloneInv, Resting, ClashInv, ZipInv
<1>7. HoldsInv'
  BY DEF HoldsInv, HoldsOf
<1>files. FilesInv'
  BY DEF FilesInv, FilesOf
<1> QED BY <1>3, <1>4, <1>5, <1>6, <1>7, <1>files

\* Time passes.
\* A package is uploaded or deleted: whoever has a request under way is no longer
\* promised the package.
LEMMA PackageIInv ==
    ASSUME BackupIInv, Upload \/ Uploaded \/ RemovePackage
    PROVE  BackupIInv'
<1> USE DEF BackupIInv
<1>1. /\ UNCHANGED <<db, handle, snapshot, zips, aside, request, clash, up, now, requests,
                     failures>>
      /\ stirred' = "yes"
      /\ changes' \in {changes, changes + 1} /\ changes' \in 0..MaxChanges
      /\ files' \in {Missing, Torn, changes} /\ upload' \in {"none", "writing"}
  BY Times DEF Upload, Uploaded, RemovePackage, world, FilesInv
<1>2. 0..changes \subseteq 0..changes'
  BY <1>1, Times
<1>3. files' \in Content
  BY <1>1, Times DEF Content
<1> USE <1>1, <1>2, <1>3 DEF RestoreAt, BackupAt, Closed, Moved, Zipping, Snapped, SoFar
<1>4. BackupTypeOK'
  BY DEF BackupTypeOK
<1>5. DataInv' /\ HandleInv' /\ AsideInv'
  BY DEF DataInv, HandleInv, AsideInv
<1>6. RequestInv' /\ AloneInv' /\ ClashInv' /\ ZipInv'
  BY DEF RequestInv, AloneInv, Resting, ClashInv, ZipInv
<1>7. HoldsInv'
  BY DEF HoldsInv, HoldsOf
<1>8. FilesInv'
  BY DEF FilesInv, FilesOf
<1> QED BY <1>4, <1>5, <1>6, <1>7, <1>8

LEMMA SecondPassesIInv ==
    ASSUME BackupIInv, SecondPasses
    PROVE  BackupIInv'
<1> USE DEF BackupIInv
<1>1. /\ UNCHANGED <<db, handle, files, upload, changes, snapshot, zips, aside, request, clash,
                     stirred, up,
                     requests, failures>>
      /\ now' = now + 1 /\ now' \in Seconds
  BY Times, BackupAssumption DEF SecondPasses, uploads, stored, Seconds
<1> USE <1>1 DEF RestoreAt, BackupAt, Closed, Moved, Zipping, Snapped, SoFar
<1>2. BackupTypeOK'
  BY DEF BackupTypeOK
<1>3. DataInv' /\ HandleInv' /\ RequestInv' /\ AloneInv' /\ ClashInv' /\ ZipInv' /\ HoldsInv'
      /\ FilesInv'
  BY DEF DataInv, HandleInv, RequestInv, AloneInv, Resting, ClashInv, ZipInv, HoldsInv, HoldsOf,
         FilesInv, FilesOf
<1>4. AsideInv'
  BY Times DEF AsideInv
<1> QED BY <1>2, <1>3, <1>4

\* Every step keeps the invariant.
LEMMA NextBackupIInv == BackupIInv /\ [NextBackup]_backupVars => BackupIInv'
<1> SUFFICES ASSUME BackupIInv, [NextBackup]_backupVars PROVE BackupIInv'
  OBVIOUS
<1>1. CASE UNCHANGED backupVars
  <2> USE <1>1 DEF backupVars, uploads, BackupIInv
  <2>1. BackupTypeOK' /\ DataInv' /\ HandleInv' /\ AsideInv'
    BY DEF BackupTypeOK, DataInv, SoFar, HandleInv, AsideInv
  <2>2. RequestInv' /\ AloneInv' /\ ClashInv' /\ ZipInv' /\ HoldsInv' /\ FilesInv'
    BY DEF RequestInv, AloneInv, Resting, ClashInv, ZipInv, HoldsInv, HoldsOf,
           FilesInv, FilesOf
  <2> QED BY <2>1, <2>2
<1>2. ASSUME NEW c \in Operators, Backup(c) PROVE BackupIInv'
  BY <1>2, CreateBackupIInv, RemoveSnapshotIInv, VacuumIInv, CopiedIInv, CopyFailsIInv,
     CreateZipIInv, AddDbIInv, ListFilesIInv, AddFileIInv, EndBackupIInv DEF Backup
<1>3. ASSUME NEW c \in Operators, Restore(c) PROVE BackupIInv'
  <2>1. CASE Exit(c)
    <3>1. /\ Stop /\ failures' \in 0..MaxFailures
          /\ UNCHANGED <<db, files, changes, aside, clash, stirred, now, requests>>
      BY <2>1 DEF Exit, BackupIInv, BackupTypeOK
    <3> QED BY <3>1, StopIInv
  <2> QED BY <1>3, <2>1, RestoreBackupIInv, CloseDBIInv, PutAsideIInv, OpenZipIInv, UnzipDbIInv,
             UnzipFilesIInv, UndoIInv DEF Restore
<1>4. CASE Crash
  <2>1. /\ Stop /\ failures' \in 0..MaxFailures
        /\ UNCHANGED <<db, files, changes, aside, clash, stirred, now, requests>>
    BY <1>4, FailuresType DEF Crash, BackupIInv
  <2> QED BY <2>1, StopIInv
<1> QED BY <1>1, <1>2, <1>3, <1>4, DeleteBackupIInv, InitDBIInv, ChangeIInv, PackageIInv,
           SecondPassesIInv
        DEF NextBackup

\* The invariant holds when the master starts, and always.
LEMMA InductiveBackup == BackupSpec => []BackupIInv
<1>1. InitBackup => BackupIInv
  <2> SUFFICES ASSUME InitBackup PROVE BackupIInv
    OBVIOUS
  <2> USE BackupAssumption DEF InitBackup, NoRequest, NoSnap, NoZip, Missing, Torn
  <2>1. BackupTypeOK
    <3>1. NoRequest \in Asked /\ NoZip \in Zip /\ NoSnap \in [v : Content, by : SUBSET Operators]
      BY DEF Asked, Stages, RestoreAt, BackupAt, Zip, Content
    <3> HIDE DEF NoRequest, NoSnap, NoZip
    <3>2. request \in [Operators -> Asked] /\ zips \in [Archives -> Zip]
      BY <3>1
    <3>3. /\ db \in Content /\ files \in Content /\ changes \in 0..MaxChanges /\ now \in Seconds
          /\ aside \in [Seconds -> Content]
      BY DEF Content, Seconds
    <3>4. requests \in 0..MaxRequests /\ failures \in 0..MaxFailures
      OBVIOUS
    <3>6. clash \in BOOLEAN /\ up \in BOOLEAN /\ upload \in {"none", "writing"}
          /\ stirred \in {"no", "yes"}
      OBVIOUS
    <3>5. handle \in {"open", "closed"} /\ snapshot \in [v : Content, by : SUBSET Operators]
      BY <3>1
    <3> HIDE DEF InitBackup
    <3> QED BY <3>2, <3>3, <3>4, <3>5, <3>6 DEF BackupTypeOK, Asked, Stages, RestoreAt, BackupAt, Zip
  <2>2. DataInv /\ HandleInv /\ AsideInv
    BY DEF DataInv, SoFar, HandleInv, Closed, RestoreAt, AsideInv, Seconds
  <2>3. RequestInv /\ AloneInv /\ ClashInv /\ ZipInv /\ HoldsInv /\ FilesInv
    BY DEF RequestInv, RestoreAt, BackupAt, Snapped, Zipping, Closed, Moved, AloneInv, Resting,
           ClashInv, ZipInv, HoldsInv, HoldsOf, FilesInv, FilesOf
  <2> QED BY <2>1, <2>2, <2>3 DEF BackupIInv
<1> QED BY <1>1, NextBackupIInv, PTL DEF BackupSpec

-----------------------------------------------------------------------------
\* Only the end of a backup answers it with success.
LEMMA OnlyEndAnswers ==
    ASSUME BackupIInv, NextBackup, NEW c \in Operators,
           request[c].at # "ok", request'[c].at = "ok"
    PROVE  EndBackup(c)
<1> USE DEF BackupIInv
<1>1. ASSUME NEW d \in Operators, Backup(d) PROVE EndBackup(c)
  <2>1. ASSUME NEW full \in Tags, CreateBackup(d, full) PROVE FALSE
    <3> DEFINE r == [NoRequest EXCEPT !.at = "remove", !.name = <<full, now>>]
    <3>1. r \in Asked /\ r.at = "remove" /\ Enter(d, r)
      BY <2>1, Times
         DEF CreateBackup, NoRequest, Asked, Stages, RestoreAt, BackupAt, Content, Archives
    <3> HIDE DEF r
    <3> QED BY <3>1, OneEnters
  <2>2. CASE RemoveSnapshot(d) \/ Copied(d) \/ CreateZip(d)
    BY <2>2, OneGoesOn DEF RemoveSnapshot, Copied, CreateZip, Stages, RestoreAt, BackupAt, Moves
  <2>3. CASE Vacuum(d)
    <3>1. CASE Finish(d, "idle")
      BY <3>1, OneFinishes
    <3>2. CASE request' = [request EXCEPT ![d].at = "copy", ![d].v = db]
      BY <3>2, RequestType
    <3> QED BY <2>3, <3>1, <3>2 DEF Vacuum
  <2>4. CASE CopyFails(d)
    BY <2>4, OneFinishes DEF CopyFails
  <2>5. CASE AddDb(d) \/ ListFiles(d) \/ AddFile(d)
    <3>1. PICK a \in {"files", "open", "end"} : GoOn(d, a) \/ Fail(d, a)
      BY <2>5 DEF AddDb, ListFiles, AddFile
    <3>2. a \in Stages
      BY DEF Stages, BackupAt
    <3> QED BY <3>1, <3>2, OneGoesOn, OneFails DEF Moves
  <2>6. CASE EndBackup(d)
    BY <2>6, OneFinishes DEF EndBackup
  <2> QED BY <1>1, <2>1, <2>2, <2>3, <2>4, <2>5, <2>6 DEF Backup
<1>2. ASSUME NEW d \in Operators, Restore(d) PROVE FALSE
  <2>1. ASSUME NEW n \in Archives, RestoreBackup(d, n) PROVE FALSE
    <3> DEFINE r == [NoRequest EXCEPT !.op = "restore", !.at = "close", !.name = n]
    <3>1. r \in Asked /\ r.at = "close" /\ Enter(d, r)
      BY <2>1 DEF RestoreBackup, NoRequest, Asked, Stages, RestoreAt, BackupAt, Content
    <3> HIDE DEF r
    <3> QED BY <3>1, OneEnters
  <2>2. CASE CloseDB(d) \/ OpenZip(d) \/ UnzipDb(d) \/ UnzipFiles(d)
    BY <2>2, OneGoesOn DEF CloseDB, OpenZip, UnzipDb, UnzipFiles, Stages, RestoreAt, BackupAt, Moves
  <2>3. CASE PutAside(d)
    BY <2>3, RequestType DEF PutAside
  <2>4. CASE Undo(d)
    BY <2>4, OneFinishes DEF Undo
  <2>5. CASE Exit(d)
    BY <2>5 DEF Exit, Stop, NoRequest
  <2> QED BY <1>2, <2>1, <2>2, <2>3, <2>4, <2>5 DEF Restore
<1>3. CASE Crash
  BY <1>3 DEF Crash, Stop, NoRequest
<1> QED BY <1>1, <1>2, <1>3
        DEF NextBackup, DeleteBackup, InitDB, Change, Upload, Uploaded, RemovePackage, SecondPasses

\* A backup beside which no other request ran and that is answered with success
\* holds the database as VACUUM INTO read it, and, if no package was uploaded or
\* deleted during the call, the packages.
THEOREM BackupIsWhole == BackupSpec => BackupHolds
<1>1. ASSUME BackupIInv, NextBackup, NEW c \in Operators,
             request[c].op = "backup", request[c].alone, failures' = failures,
             request[c].at # "ok", request'[c].at = "ok"
      PROVE  LET z == zips'[request[c].name] IN
             z.there =>
               /\ z.whole /\ z.db \in 0..changes
               /\ z.db = request[c].v
               /\ request[c].name[1] /\ stirred = "no" => z.files = files
  <2> USE <1>1 DEF BackupIInv
  <2> DEFINE n == request[c].name
             z == zips[n]
  <2>1. EndBackup(c) /\ request[c].at = "end"
    BY OnlyEndAnswers DEF EndBackup, Doing
  <2>2. ~request[c].failed
    <3>1. CASE request[c].failed
      <4>1. Finish(c, "idle")
        BY <2>1, <3>1 DEF EndBackup
      <4> QED BY <4>1, OneFinishes
    <3> QED BY <3>1
  <2>3. n \in Archives /\ z \in Zip /\ request[c].v \in 0..changes
    BY <2>1, ZipsType DEF RequestInv, BackupAt, Snapped, Zipping
  <2>4. z.there =>
          /\ c \in z.by /\ z.db = request[c].v
          /\ n[1] /\ stirred = "no" => z.files = files
    BY <2>1, <2>2 DEF HoldsInv, HoldsOf, FilesInv, FilesOf, Zipping
  <2>5. zips'[n] = IF c \in z.by THEN [z EXCEPT !.whole = TRUE, !.by = z.by \ {c}] ELSE z
    <3>1. failures \in Nat
      BY BackupAssumption DEF BackupTypeOK
    <3>2. PICK whole \in BOOLEAN :
            /\ IF whole THEN UNCHANGED failures ELSE Failure
            /\ zips' = [zips EXCEPT ![n] =
                 IF c \in z.by THEN [z EXCEPT !.whole = whole, !.by = z.by \ {c}] ELSE z]
      BY <2>1 DEF EndBackup
    <3>3. whole = TRUE
      BY <3>1, <3>2 DEF Failure
    <3> QED BY <2>3, <3>2, <3>3, ZipsType
  <2> QED BY <2>3, <2>4, <2>5 DEF Zip
<1>2. BackupIInv /\ [NextBackup]_backupVars =>
        [\A c \in Operators :
         (/\ request[c].op = "backup" /\ request[c].alone /\ failures' = failures
          /\ request[c].at # "ok" /\ request'[c].at = "ok")
           => LET z == zips'[request[c].name] IN
              z.there =>
                /\ z.whole /\ z.db \in 0..changes
                /\ z.db = request[c].v
                /\ request[c].name[1] /\ stirred = "no" => z.files = files]_backupVars
  BY <1>1
<1> QED BY <1>2, InductiveBackup, PTL DEF BackupSpec, BackupHolds

-----------------------------------------------------------------------------
\* A restore that is to put a database aside finds no other in its place.
LEMMA PlaceIsFree ==
    ASSUME BackupIInv, NEW c \in Operators, PutAside(c), ~clash
    PROVE  aside[now] = Missing
BY DEF BackupIInv, AsideInv, ClashInv, PutAside, Doing, RestoreAt, Closed, Moved

\* A database is being replaced by that of an archive.
Replaced == \E c \in Operators : request[c].at \in {"unzipdb", "unzipfiles", "undo", "exit"}

\* The databases there are, with the replacement named.
LEMMA HeldIs ==
    Held = ({aside[s] : s \in Seconds} \cup IF Replaced THEN {} ELSE {db}) \ {Missing, Torn}
BY DEF Held, Replaced

\* Where the database and the files put aside stay, and no replacement begins,
\* nothing is lost.
LEMMA HeldStays ==
    ASSUME UNCHANGED <<db, aside>>, Replaced' => Replaced \/ db \in {Missing, Torn}
    PROVE  Held \subseteq Held'
BY HeldIs DEF Held, Replaced

\* A backup loses no database ...
LEMMA HeldByBackup ==
    ASSUME BackupIInv, NEW c \in Operators, Backup(c)
    PROVE  Held \subseteq Held'
<1> USE DEF BackupIInv
<1>1. UNCHANGED <<db, aside>>
  BY DEF Backup, CreateBackup, RemoveSnapshot, Vacuum, Copied, CopyFails, CreateZip, AddDb,
         ListFiles, AddFile, EndBackup, stored
<1>2. ASSUME NEW d \in Operators, request'[d].at \in {"unzipdb", "unzipfiles", "undo", "exit"}
      PROVE  request[d].at = request'[d].at
  <2>1. ASSUME NEW full \in Tags, CreateBackup(c, full) PROVE request[d].at = request'[d].at
    <3> DEFINE r == [NoRequest EXCEPT !.at = "remove", !.name = <<full, now>>]
    <3>1. r \in Asked /\ r.at = "remove" /\ Enter(c, r)
      BY <2>1, Times
         DEF CreateBackup, NoRequest, Asked, Stages, RestoreAt, BackupAt, Content, Archives
    <3> HIDE DEF r
    <3> QED BY <1>2, <3>1, OneEnters
  <2>2. CASE RemoveSnapshot(c) \/ Copied(c) \/ CreateZip(c)
    BY <1>2, <2>2, OneGoesOn
       DEF RemoveSnapshot, Copied, CreateZip, Stages, RestoreAt, BackupAt, Moves
  <2>3. CASE Vacuum(c)
    <3>1. CASE Finish(c, "idle")
      BY <1>2, <3>1, OneFinishes
    <3>2. CASE request' = [request EXCEPT ![c].at = "copy", ![c].v = db]
      BY <1>2, <3>2, RequestType
    <3> QED BY <2>3, <3>1, <3>2 DEF Vacuum
  <2>4. CASE CopyFails(c)
    BY <1>2, <2>4, OneFinishes DEF CopyFails
  <2>5. CASE AddDb(c) \/ ListFiles(c) \/ AddFile(c)
    <3>1. PICK a \in {"files", "open", "end"} : GoOn(c, a) \/ Fail(c, a)
      BY <2>5 DEF AddDb, ListFiles, AddFile
    <3>2. a \in Stages
      BY DEF Stages, BackupAt
    <3>3. request'[c].at \in {"files", "open", "end"}
          /\ \A e \in Operators \ {c} : request'[e] = request[e]
      BY <3>1, <3>2, OneGoesOn, OneFails DEF Moves
    <3> QED BY <1>2, <3>3
  <2>6. CASE EndBackup(c)
    BY <1>2, <2>6, OneFinishes DEF EndBackup
  <2> QED BY <2>1, <2>2, <2>3, <2>4, <2>5, <2>6 DEF Backup
<1> QED BY <1>1, <1>2, HeldStays DEF Replaced

\* ... and neither does a restore with no other beside it.
LEMMA HeldByRestore ==
    ASSUME BackupIInv, NEW c \in Operators, Restore(c), ~clash'
    PROVE  Held \subseteq Held'
<1> USE DEF BackupIInv
<1>1. ASSUME NEW n \in Archives, RestoreBackup(c, n) PROVE Held \subseteq Held'
  <2> DEFINE r == [NoRequest EXCEPT !.op = "restore", !.at = "close", !.name = n]
  <2>1. r \in Asked /\ r.at = "close" /\ Enter(c, r) /\ UNCHANGED <<db, aside>>
    BY <1>1 DEF RestoreBackup, NoRequest, Asked, Stages, RestoreAt, BackupAt, Content, stored
  <2> HIDE DEF r
  <2>2. Replaced' => Replaced
    BY <2>1, OneEnters DEF Replaced
  <2> QED BY <2>1, <2>2, HeldStays
<1>2. CASE CloseDB(c)
  <2>1. Moves(c, "aside", request[c].failed, request[c].v) /\ UNCHANGED <<db, aside>>
    BY <1>2, OneGoesOn DEF CloseDB, Stages, RestoreAt, BackupAt
  <2>2. Replaced' => Replaced
    BY <2>1 DEF Replaced, Moves
  <2> QED BY <2>1, <2>2, HeldStays
<1>3. CASE PutAside(c)
  <2>1. /\ ~clash /\ request[c].at = "aside" /\ now \in Seconds /\ aside[now] = Missing
        /\ aside \in [Seconds -> Content]
    BY <1>3, PlaceIsFree, Times DEF PutAside, uploads, world, Doing
  <2>2. /\ \A s \in Seconds \ {now} : aside'[s] = aside[s]
        /\ db # Missing => aside'[now] = db
    BY <1>3, <2>1 DEF PutAside
  <2> QED BY <2>1, <2>2, HeldIs DEF Held
<1>4. CASE OpenZip(c)
  <2>1. ~clash /\ request[c].at = "unzip" /\ UNCHANGED aside /\ db = Missing
    BY <1>4 DEF OpenZip, uploads, world, Doing, AsideInv
  <2> QED BY <2>1, HeldIs DEF Held
<1>5. CASE UnzipDb(c) \/ UnzipFiles(c)
  <2>1. \E a \in {"unzipfiles", "undo", "exit"} : GoOn(c, a) /\ a \in Stages
    BY <1>5 DEF UnzipDb, UnzipFiles, Stages, RestoreAt, BackupAt
  <2>2. Replaced /\ Replaced' /\ UNCHANGED aside
    BY <1>5, <2>1, OneGoesOn DEF Moves, Replaced, UnzipDb, UnzipFiles, Doing
  <2> QED BY <2>2, HeldIs DEF Held, Replaced
<1>6. CASE Undo(c)
  <2> DEFINE s == request[c].v
  <2>1. /\ ~clash /\ request[c].at = "undo" /\ s \in Seconds /\ Replaced
        /\ aside \in [Seconds -> Content]
    BY <1>6, Times DEF Undo, uploads, world, Doing, RequestInv, Moved, Closed, RestoreAt, Replaced
  <2>2. ~Replaced'
    BY <1>6, <2>1, OneFinishes DEF Undo, Replaced, ClashInv, RestoreAt
  <2>3. /\ \A t \in Seconds \ {s} : aside'[t] = aside[t]
        /\ aside[s] # Missing => db' = aside[s]
        /\ aside[s] = Missing => aside' = aside
    BY <1>6, <2>1 DEF Undo
  <2>4. Held' = ({aside'[t] : t \in Seconds} \cup {db'}) \ {Missing, Torn}
    BY <2>2 DEF Held, Replaced
  <2>5. Held = {aside[t] : t \in Seconds} \ {Missing, Torn}
    BY <2>1, HeldIs
  <2> QED BY <2>1, <2>3, <2>4, <2>5
<1>7. CASE Exit(c)
  <2>1. UNCHANGED <<db, aside>> /\ ~Replaced'
    BY <1>7 DEF Exit, Stop, NoRequest, Replaced
  <2> QED BY <2>1, HeldStays
<1> QED BY <1>1, <1>2, <1>3, <1>4, <1>5, <1>6, <1>7 DEF Restore

\* Wherever a backup or a restore fails, or the process dies in one, no database
\* is lost (RestoreBackup, os.Rename and the rollback).
THEOREM NoDatabaseIsLost == BackupSpec => NothingLost
<1>1. ASSUME BackupIInv, NextBackup, handle = "closed", ~clash'
      PROVE  Held \subseteq Held'
  <2> USE <1>1
  <2>1. ASSUME NEW n \in Archives, DeleteBackup(n) PROVE Held \subseteq Held'
    BY <2>1, HeldStays DEF DeleteBackup, uploads, stored, Replaced
  <2>2. CASE Crash
    <3>1. UNCHANGED <<db, aside>> /\ ~Replaced'
      BY <2>2 DEF Crash, Stop, NoRequest, Replaced
    <3> QED BY <3>1, HeldStays
  <2>3. CASE InitDB
    <3>1. UNCHANGED <<aside, request>> /\ (db # Missing => db' = db)
      BY <2>3 DEF InitDB
    <3> QED BY <3>1 DEF Held
  <2>4. CASE Change
    BY <2>4 DEF Change
  <2>6. CASE Upload \/ Uploaded \/ RemovePackage
    BY <2>6, HeldStays DEF Upload, Uploaded, RemovePackage, Replaced
  <2>5. CASE SecondPasses
    BY <2>5, HeldStays DEF SecondPasses, uploads, stored, Replaced
  <2> QED BY <1>1, <2>1, <2>2, <2>3, <2>4, <2>5, <2>6, HeldByBackup, HeldByRestore DEF NextBackup
<1>2. BackupIInv /\ [NextBackup]_backupVars =>
        [handle = "closed" /\ ~clash' => Held \subseteq Held']_backupVars
  BY <1>1
<1> QED BY <1>2, InductiveBackup, PTL DEF BackupSpec, NothingLost

\* Every variable of the model has its type.
THEOREM BackupTypeCorrect == BackupSpec => []BackupTypeOK
<1>1. BackupIInv => BackupTypeOK
  BY DEF BackupIInv
<1> QED BY <1>1, InductiveBackup, PTL
=============================================================================
