----------------------------- MODULE MCRecords -----------------------------
(***************************************************************************)
(* What the master and the worker record: the in-memory series, backups,   *)
(* the system catalogue, the list of packages, the network counters, the   *)
(* table of alerts and the token of the Nacos proxy.  These parts share    *)
(* nothing, so that each is looked at while the others rest, as in module  *)
(* MCServices; here only safety is checked, on larger instances.           *)
(***************************************************************************)
EXTENDS MemoryTSDB, AlertManager, ConfigManager, BackupManager, SystemManager, PackageStore,
        Collector, TLC

CONSTANTS c1, c2, o1, o2, r1, r2, t1, s1, s2, n1, n2, v1, v2

VARIABLE part    \* the part that is looked at

allVars == <<part, seriesVars, backupVars, catalogVars, storeVars, netVars, vars, proxyVars>>

\* A rule that fires at once and one that waits.
OneTick == [r \in Rules |-> IF r = r1 THEN 1 ELSE 0]

\* One call that reads and one that writes.
ReadAndWrite == [c \in Calls |-> IF c = c1 THEN {"GET"} ELSE {"POST", "DELETE"}]

\* Writers of the series and operators of backups have no part that tells them apart.
Symmetry == Permutations({o1, o2})

ASSUME RecordsAssumption == AlertAssumption /\ ConfigAssumption

AllInit ==
    /\ part \in {"series", "backup", "catalog", "store", "net", "alerts", "nacos"}
    /\ InitSeries /\ InitBackup /\ InitCatalog /\ InitStore /\ InitNet /\ Init /\ InitProxy
    /\ part # "net" => counter = 0

In(p)      == part = p /\ UNCHANGED part
ButSeries  == In("series") /\ UNCHANGED <<backupVars, catalogVars, storeVars, netVars, vars, proxyVars>>
ButBackup  == In("backup") /\ UNCHANGED <<seriesVars, catalogVars, storeVars, netVars, vars, proxyVars>>
ButCatalog == In("catalog") /\ UNCHANGED <<seriesVars, backupVars, storeVars, netVars, vars, proxyVars>>
ButStore   == In("store") /\ UNCHANGED <<seriesVars, backupVars, catalogVars, netVars, vars, proxyVars>>
ButNet     == In("net") /\ UNCHANGED <<seriesVars, backupVars, catalogVars, storeVars, vars, proxyVars>>
ButAlerts  == In("alerts") /\ UNCHANGED <<seriesVars, backupVars, catalogVars, storeVars, netVars, proxyVars>>
ButNacos   == In("nacos") /\ UNCHANGED <<seriesVars, backupVars, catalogVars, storeVars, netVars, vars>>

AllNext ==
    \/ ButSeries /\ NextSeries
    \/ ButBackup /\ NextBackup
    \/ ButCatalog /\ NextCatalog
    \/ ButStore /\ NextStore
    \/ ButNet /\ NextNet
    \/ ButAlerts /\ Next
    \/ ButNacos /\ NextProxy

AllSpec == AllInit /\ [][AllNext]_allVars

-----------------------------------------------------------------------------
\* The types of all the parts; the other properties are those of the modules.
AllTypeOK ==
    /\ SeriesTypeOK /\ BackupTypeOK /\ CatalogTypeOK /\ StoreTypeOK /\ NetTypeOK
    /\ TypeOK /\ ProxyTypeOK
=============================================================================
