---------------------------- MODULE PackageStore ----------------------------
(***************************************************************************)
(* The list of packages of the master: the files of the local storage      *)
(* provider, which uploads and deletions change while ListFiles walks the  *)
(* directory, and their grouping into services and versions.               *)
(*                                                                         *)
(* The key of a package is its name and its version; a name that holds a   *)
(* slash makes a path of more than two parts.                              *)
(***************************************************************************)
EXTENDS Integers, FiniteSetsExt

CONSTANTS
    Names,     \* names of services
    Nested,    \* those that hold a slash
    Versions,  \* versions
    MaxSaved   \* bound: files saved, and so the clock

ASSUME StoreAssumption == Nested \subseteq Names /\ MaxSaved \in Nat

VARIABLES
    packages, \* the time each file was last written, NoFile when there is none
    time,     \* the clock
    walk,     \* ListFiles: files not visited yet, and those found
    steady,   \* files that have been there since the walk began
    ever,     \* and those that were there at some moment of it
    answer    \* the list: of each service its versions and its last upload

storeVars == <<packages, time, walk, steady, ever, answer>>

NoFile   == -1
Packages == Names \X Versions
Present  == {k \in Packages : packages[k] # NoFile}
Walking  == walk.todo # {}
Found    == [key : Packages, time : 0..MaxSaved]
NoAnswer == [n \in {} |-> [versions |-> {}, last |-> 0]]

StoreTypeOK ==
    /\ packages \in [Packages -> {NoFile} \cup 0..MaxSaved] /\ time \in 0..MaxSaved
    /\ walk \in [todo : SUBSET Packages, found : SUBSET Found]
    /\ steady \subseteq Packages /\ ever \subseteq Packages
    /\ DOMAIN answer \subseteq Names
    /\ \A n \in DOMAIN answer : answer[n] \in [versions : SUBSET Versions, last : 0..MaxSaved]

InitStore ==
    /\ packages = [k \in Packages |-> NoFile] /\ time = 0
    /\ walk = [todo |-> {}, found |-> {}]
    /\ steady = {} /\ ever = {}
    /\ answer = NoAnswer

-----------------------------------------------------------------------------
\* LocalProvider.Save; a package of the same key is overwritten in place.
Save(k) ==
    /\ time < MaxSaved /\ time' = time + 1
    /\ packages' = [packages EXCEPT ![k] = time']
    /\ ever' = ever \cup {k}
    /\ UNCHANGED <<walk, steady, answer>>

DeletePackage(k) ==
    /\ packages[k] # NoFile
    /\ packages' = [packages EXCEPT ![k] = NoFile]
    /\ steady' = steady \ {k}
    /\ UNCHANGED <<time, walk, ever, answer>>

-----------------------------------------------------------------------------
\* Mutant: every path is split at its first slash.
GroupedAll(found) == found

\* Only paths of two parts make a package.
Grouped(found) == {f \in found : f.key[1] \notin Nested}

\* One entry per service, whatever the order of the files.
Group(found) ==
    LET sound == Grouped(found) IN
    [n \in {f.key[1] : f \in sound} |->
        LET mine == {f \in sound : f.key[1] = n} IN
        [versions |-> {f.key[2] : f \in mine}, last |-> Max({f.time : f \in mine})]]

ListPackages ==
    /\ ~Walking
    /\ walk' = [todo |-> Packages, found |-> {}]
    /\ steady' = Present /\ ever' = Present
    /\ UNCHANGED <<packages, time, answer>>

\* A file that is gone when its turn comes is passed over.
Visit(k) ==
    /\ k \in walk.todo
    /\ LET found == IF k \in Present THEN walk.found \cup {[key |-> k, time |-> packages[k]]}
                                     ELSE walk.found
           todo == walk.todo \ {k}
       IN  /\ walk' = [todo |-> todo, found |-> IF todo = {} THEN {} ELSE found]
           /\ answer' = IF todo = {} THEN Group(found) ELSE answer
    /\ UNCHANGED <<packages, time, steady, ever>>

NextStore == ListPackages \/ \E k \in Packages : Save(k) \/ DeletePackage(k) \/ Visit(k)

StoreSpec == InitStore /\ [][NextStore]_storeVars

-----------------------------------------------------------------------------
(***************************************************************************)
(* Properties                                                              *)
(***************************************************************************)
Listed(list) == UNION {{<<n, v>> : v \in list[n].versions} : n \in DOMAIN list}

\* A package that was there throughout the walk is listed, one that never was
\* is not, and neither is a file that is no package.
ListSound ==
    [][Walking /\ walk'.todo = {} =>
         /\ {k \in steady : k[1] \notin Nested} \subseteq Listed(answer')
         /\ Listed(answer') \subseteq {k \in ever : k[1] \notin Nested}]_storeVars
=============================================================================
