--------------------------- MODULE SystemManager ---------------------------
(***************************************************************************)
(* The catalogue of the master: the tables of systems, modules and         *)
(* instances, as the handlers of the web interface change them, and the    *)
(* view of all three that GetFullView puts together.                       *)
(*                                                                         *)
(* Each change of the catalogue is made under sm.mu; the view takes no     *)
(* lock and reads one table after the other; nor does the deployment of an *)
(* instance, which is not made through this manager.  No row refers to     *)
(* another by a key that the database would enforce.                       *)
(***************************************************************************)
EXTENDS Integers, FiniteSets

CONSTANTS
    Systems,      \* identifiers of systems
    Modules,      \* identifiers of modules
    Instances,    \* identifiers of instances
    Readers       \* calls of GetFullView under way

VARIABLES
    system,    \* rows of system_infos
    module,    \* rows of system_modules, with the system of each
    instance,  \* rows of instance_infos, with the system of each
    deleted,   \* systems whose deletion has been answered
    read,      \* what each reader has read
    view       \* the last view put together

catalogVars == <<system, module, instance, deleted, read, view>>

None   == "none"
InUse(t) == {k \in DOMAIN t : t[k] # None}
Rows(t) == {<<k, t[k]>> : k \in InUse(t)}

NoRead == [at |-> "idle", gone |-> {}, sys |-> {}, mod |-> {}]
NoView == [gone |-> {}, sys |-> {}, mod |-> {}, ins |-> {}]

CatalogTypeOK ==
    /\ system \subseteq Systems
    /\ module \in [Modules -> Systems \cup {None}]
    /\ instance \in [Instances -> Systems \cup {None}]
    /\ deleted \subseteq Systems
    /\ read \in [Readers -> [at : {"idle", "modules", "instances"}, gone : SUBSET Systems,
                             sys : SUBSET Systems, mod : SUBSET (Modules \X Systems)]]
    /\ view \in [gone : SUBSET Systems, sys : SUBSET Systems,
                 mod : SUBSET (Modules \X Systems), ins : SUBSET (Instances \X Systems)]

InitCatalog ==
    /\ system = {}
    /\ module = [m \in Modules |-> None]
    /\ instance = [i \in Instances |-> None]
    /\ deleted = {}
    /\ read = [r \in Readers |-> NoRead]
    /\ view = NoView

-----------------------------------------------------------------------------
(***************************************************************************)
(* The handlers, which change the catalogue                                *)
(***************************************************************************)

\* The identifier is the time in nanoseconds: it is new.
CreateSystem(s) ==
    /\ s \notin system \cup deleted
    /\ system' = system \cup {s}
    /\ UNCHANGED <<module, instance, deleted, read, view>>

\* One transaction for the three tables.  Any identifier will do.
DeleteSystem(s) ==
    /\ instance' = [i \in Instances |-> IF instance[i] = s THEN None ELSE instance[i]]
    /\ module' = [m \in Modules |-> IF module[m] = s THEN None ELSE module[m]]
    /\ deleted' = IF s \in system THEN deleted \cup {s} ELSE deleted
    /\ system' = system \ {s}
    /\ UNCHANGED <<read, view>>

\* Nobody looks whether the system is still there.
AddModule(m, s) ==
    /\ s \in system \cup deleted /\ module[m] = None
    /\ module' = [module EXCEPT ![m] = s]
    /\ UNCHANGED <<system, instance, deleted, read, view>>

DeleteModule(m) ==
    /\ module[m] # None
    /\ module' = [module EXCEPT ![m] = None]
    /\ UNCHANGED <<system, instance, deleted, read, view>>

\* RegisterInstance of a deployment that looked up the system some time ago,
\* and RemoveInstance.
Deploy(i, s) ==
    /\ s \in system \cup deleted /\ instance[i] = None
    /\ instance' = [instance EXCEPT ![i] = s]
    /\ UNCHANGED <<system, module, deleted, read, view>>

Remove(i) ==
    /\ instance[i] # None
    /\ instance' = [instance EXCEPT ![i] = None]
    /\ UNCHANGED <<system, module, deleted, read, view>>

-----------------------------------------------------------------------------
(***************************************************************************)
(* GetFullView                                                             *)
(***************************************************************************)
ReadSystems(r) ==
    /\ read[r].at = "idle"
    /\ read' = [read EXCEPT ![r] =
                   [at |-> "modules", gone |-> deleted, sys |-> system, mod |-> {}]]
    /\ UNCHANGED <<system, module, instance, deleted, view>>

ReadModules(r) ==
    /\ read[r].at = "modules"
    /\ read' = [read EXCEPT ![r].at = "instances", ![r].mod = Rows(module)]
    /\ UNCHANGED <<system, module, instance, deleted, view>>

\* Mutant: the view has an entry for every system that a row names.
AssembleAll(r, ins) ==
    [gone |-> read[r].gone,
     sys |-> read[r].sys \cup {m[2] : m \in read[r].mod} \cup {i[2] : i \in ins},
     mod |-> read[r].mod, ins |-> ins]

\* An entry for each system read, with the rows that name it.
Assemble(r, ins) ==
    [gone |-> read[r].gone,
     sys |-> read[r].sys,
     mod |-> {m \in read[r].mod : m[2] \in read[r].sys},
     ins |-> {i \in ins : i[2] \in read[r].sys}]

ReadInstances(r) ==
    /\ read[r].at = "instances"
    /\ view' = Assemble(r, Rows(instance))
    /\ read' = [read EXCEPT ![r] = NoRead]
    /\ UNCHANGED <<system, module, instance, deleted>>

GetFullView(r) == ReadSystems(r) \/ ReadModules(r) \/ ReadInstances(r)

Handlers ==
    \/ \E s \in Systems : CreateSystem(s) \/ DeleteSystem(s)
    \/ \E m \in Modules : DeleteModule(m) \/ \E s \in Systems : AddModule(m, s)
    \/ \E i \in Instances : Remove(i) \/ \E s \in Systems : Deploy(i, s)

NextCatalog == Handlers \/ \E r \in Readers : GetFullView(r)

CatalogSpec == InitCatalog /\ [][NextCatalog]_catalogVars

-----------------------------------------------------------------------------
(***************************************************************************)
(* Properties                                                              *)
(***************************************************************************)

\* A view that was asked for after the deletion of a system was answered shows
\* nothing of it, whatever rows of it a late deployment has left behind.
GoneStaysGone ==
    LET named == view.sys \cup {m[2] : m \in view.mod} \cup {i[2] : i \in view.ins}
    IN  named \cap view.gone = {}
=============================================================================
