# A formal model of ops-system

ops-system is a Go program in two parts. A **master** keeps systems, nodes,
packages, service instances, alerts and settings in SQLite and serves a web
front end. On each node a **worker** installs packages, runs the services as
detached processes, and reports on them. This directory holds TLA+ modules
translated from the Go code, the TLC configurations that check them, and proofs
that TLAPS checks.

Lines of the source are quoted as `path:line` relative to the repository root;
`PROJECT.json` maps every definition to the lines it stands for.

## 1. Inventory

| component | source | state | operations |
|---|---|---|---|
| package store | `internal/master/manager/pkg_manager.go`, `pkg/storage/local.go` | files `<name>/<version>.zip` | upload (in place), delete, serve |
| package cache | `internal/worker/executor/instance_manager.go:125-188` | `pkgs/<file>`, its `.tmp`, a lock per file | `ensurePackageCached`, unpack |
| instance executor | `internal/worker/executor`, `internal/worker/handler/server.go` | directories, `pid` files, processes | deploy, register, start, stop, destroy, monitor |
| instance registry | `internal/master/manager/instance_manager.go`, `api/instance_handler.go` | table `instance_infos`, `metricsCache` | deploy, adopt, action, system action, status report, DeleteSystem |
| alert engine | `internal/master/manager/alert_manager.go` | tables of rules and events, the states in memory | rules, events, `evaluate` every 5 s |
| WebSocket hub | `internal/master/ws/hub.go` | clients, latest view, dirty flags | publish, register, throttled push |
| node registry | `manager/node_manager.go`, worker `agent/heartbeat.go` | `node_infos`, metrics cache | heartbeat, planned nodes, rename, delete, offline detection |
| system catalogue | `manager/system_manager.go` | systems, modules | create, delete, full view |
| Nacos proxy | `manager/config_manager.go` | settings, cached token and address | save, login, get, post, delete |
| backup | `manager/backup_manager.go` | archives, `snapshot.db`, the open database | create, delete, restore |
| time series | `monitor/store.go` | points per key | write with trimming, range query |
| log streaming | `api/log_handler.go:98-174`, worker `handler/log_stream.go` | two sockets, one tail | proxy in both directions, teardown |
| remote command, operation log | `api/node_handler.go:157-208`, `manager/log_manager.go`, worker `handler/server.go:168-193` | `sys_op_logs`, the command on the node | send, time out, log, page through the log |
| metrics collector | worker `agent/collector.go` | the last reading of the network counters | `GetStatus` |
| entry points, object storage, front end, packers | various | none others read | see `PROJECT.json`, components |

How they interact:

- The master sends a command to a worker with a blocking POST of at most ten
  seconds (`pkg/utils/http_client.go:35`). Deploy is answered before it is done;
  the rest is done first.
- The worker posts status reports: from the handlers, from the deploy goroutine,
  and every few seconds from the monitor. Nothing is sent twice, and reports
  carry no number.
- A worker downloads packages from the master over HTTP.
- The handlers of the master publish whole views to the hub over an unbuffered
  channel, and the alert engine publishes with its own lock held.
- The alert engine reads the rows of nodes and instances without a lock.
- A worker sends a heartbeat every five seconds. Its handler stores the figures
  in a cache, the points in the time series, and the row under `nm.mu`.
- A restore closes the database under every other manager and ends the process.
- The log proxy of the master has a goroutine for each direction between the
  browser's socket and the worker's.

What is hard here: a pid file stands for a process it only names; request
handlers of the worker take no lock; every message between master and worker may
be late, lost or overtaken; the double-checked lock of the package cache sits on
files that survive a crash; alert states live in memory and alert events in the
database; the hub mixes channels with a mutex held across network writes.
`PROJECT.json` lists each hazard at its line with the properties that watch it.

What makes each component correct:

- *package cache*: one download of a package at a time, nothing short is ever
  cached, a cached package never changes, every call returns.
- *executor*: a service has at most one process, its pid file names it, stop
  stops it, files go only when the process is gone, and a stranger is killed only
  where a pid was used again or a look-up by name and directory took it.
- *registry*: what is removed is gone on the worker and does not come back; the
  row ends up agreeing with the process.
- *alerts*: an open event can be closed by a later pass, but after a restart, the
  deletion of its rule or the removal of its target; debouncing; what stays wrong
  is raised and what is well again is settled.
- *hub*: nothing is lost between flag and client; browsers end up with what was
  published last; dead clients are forgotten; handlers are not held up.
- *node registry*: the list ends up saying whether a worker is alive, names given
  by an operator stay, and the cache keeps no figures of nodes that are gone.
- *system catalogue*: what was deleted is not shown again.
- *package list*: it has what was there throughout, and nothing that never was.
- *Nacos proxy*: no GET or POST takes a token to a server that did not issue it (a
  DELETE can), retries help.
- *backup*: a backup that succeeded beside no other request can be restored, with
  the packages nobody touched meanwhile; no restore loses the database.
- *time series*: trimming loses nothing a query within the retention asks for.
- *log streaming*: whoever leaves, every goroutine of the proxy ends and every
  socket closes; those of the worker end but for one way, which is a finding.
- *remote command*: what the log calls a success was one; a reader of the log misses
  no entry.
- *collector*: the speeds add up to the time passed and, until a network card is
  removed, to the bytes moved, across an overflow.

## 2. Modules

| module | what it is |
|---|---|
| `PackageCache` | the store of the master and the cache of one worker |
| `Supervisor` | abstract: what a worker promises about its services |
| `InstanceExecutor` | one worker in detail, with the machine under it |
| `InstanceRegistry` | the master's handlers and tables for instances |
| `InstanceLifecycle` | composes the two: it extends `InstanceRegistry`, which extends `InstanceExecutor`, and adds the network between them |
| `NodeManager` | rows and figures of nodes, heartbeats, what `GetAllNodes` shows |
| `AlertManager` | rules, events, states, evaluation |
| `NodeAlerts` | composes the two: the alert engine on what the registry shows |
| `WsHub` | handlers, `Run`, `throttlePush`, sockets |
| `ConfigManager` | the Nacos proxy: settings, cached token, calls |
| `LogStream` | tail, worker's handler, proxy, browser |
| `RemoteCommand` | `TriggerCmd`, `handleExec`, the log of operations |
| `BackupManager` | database file, snapshot, archives, restore |
| `MemoryTSDB` | one series of points |
| `SystemManager` | systems, modules, rows of instances, the full view |
| `PackageStore` | the list of packages while the files change |
| `Collector` | network counters and speeds |
| `*_proofs` | the proofs: of one module each, but for `AlertsNacos_proofs` (the parts both `services` and `records` look at), `Services_proofs` (hub, log stream, commands) and `Records_proofs` (series, catalogue, package list, counters) |
| `MCServices`, `MCRecords` | several parts in one run, see section 3 |
| other `MC*` | instances for TLC: constants, symmetry, start states |

An operator whose comment begins with "Mutant" is never part of a specification.
It is a plausible bug in the definition below it, kept to show that a property
would catch it: TLC finds the property violated when the mutant takes the
definition's place. A property that joins two, such as `StreamEnds`, has a mutant
for each.

### PackageCache

`pc[t]` is the place of a deploy goroutine in `ensurePackageCached`: `Stat`,
`Lock`, `Restat`, `HttpGet`, `CreateTmp`, `CopyChunk`, `CopyDone` or `CopyFail`,
`Rename`, and `Fail` for the errors of the calls in between. A file is the
sequence of the uploads its chunks come from. `SaveOpen`, `SaveChunk` and
`SaveEnd` are `LocalProvider.Save`: `os.Create` truncates the inode that a
download may be reading, which is why a name (`dir`) and an inode (`disk`) are
two things. `Crash` loses the locks and keeps the files.

### InstanceExecutor

A call is an actor, as net/http gives each request a goroutine. `pc[c]` names
the point between two effects on the machine at which another goroutine can come
in: `spawn` is `cmd.Start`, `match` the search for an adopted service's process,
`writepid` the `os.WriteFile` of the pid, `readpid`, `kill`, `rmpid` the steps
of `StopProcess`, `rmdir` the `RemoveAll` of destroy. `live` is the process
table: `Exit` ends a process, `Other` starts one of somebody else on a free pid.
`Examine`, `Check`, `Checked` are one step of the monitor's round over the
instances it lists. `reports` is what the worker has posted and the master has
not yet processed; `GiveUp` is the client's timeout, after which the report may
still arrive (`Late`). `overlap` is a ghost: the instances whose calls ran at the
same time or were cut by a crash. The code makes no promise about those, and the
properties on processes and files except them: the races of two calls on one
instance, and the crash between `cmd.Start` and the pid file, are in the model, are
listed as hazards, and are watched by no property. `Alike` is whose processes else
`findProcessPID` may take for those of an adopted service: anybody's whose name or
command line contains the keyword and whose directory is the same.

`Client` and `Taken` close the module: any client that names an instance by a
deploy or register of its own, and a master that takes every report.

### InstanceRegistry and InstanceLifecycle

`DeployInstance`, `RegisterExternal` and `InstanceAction` send a command and wait
(`task[c] = "waiting"`); `Return` is what they do with the answer, `TimeOut` what
they do without one. `SystemAction` reads the rows, then `BatchSend` sends one
command after another from that snapshot. `CleanCache` and `DeleteRows` are the
two halves of `DeleteSystem`. A status report is applied in two steps, as the
code does: the UPDATE (`Apply`), then the metrics (`Store`). `hurried` is a ghost:
instances that were commanded again before an earlier command had ended; `faulted` says whether
anything has failed yet, which is the premise of `DeployUnderWay`.

The registry commands and hears the worker through the worker's own variables:
a command is a new call in `pc`, an answer is in `answer`, a report in `reports`.
`InstanceLifecycle` joins the steps of both and adds the faults: a crash of the
worker, a request that is not delivered, a timeout, a report that is lost.

### AlertManager

A pass of `evaluate` is five steps: `ReadRules` and `Snapshot` without a lock,
`Begin` takes `am.mu`, `HandleState` once for each rule and target, `End`. The
handlers are under the same lock and so are excluded only while the pass
applies. A state holds its age instead of `FirstTriggerTime`; time does not pass
while a pass applies, as it reads the clock once. `events` is never reused, as
the table's AUTOINCREMENT is not; a deleted row is marked. A rule is enabled for
ever because nothing in the code disables one. `heat` is a ghost: for how long
every pass that saw the target has found it hot. That the broadcast of an alert
waits for the hub with `am.mu` held is the business of `WsHub`.

### WsHub

`run` is where `Run` is, `push` where `throttlePush` is. `Locked` is h.mu held
across steps: by `broadcastToAll` while it writes and by `pushCurrentState`. A
view is told by its version. `broken` and `stalled` are browsers that are gone
and browsers that do not read. Writing to one client is one action, though it may
be two messages: the lock is held throughout and nobody else writes to the
socket. A view changes with a handler that goes on to publish it (`Handle`,
`Publish`) or, for the nodes, with time alone (`Lapse`): nobody publishes that a
node has gone offline.

### NodeManager and NodeAlerts

A heartbeat is a record in `beats`: `sent`, or `stored` when the handler has put
its figures into the cache and not yet taken `nm.mu` for the row. `awaited` tells
whether its agent still waits; an agent that has given up sends the next one while
the first is handled. A row holds the age of `last_heartbeat`, up to `MaxAge`,
beyond which ages make no difference. `Listed`, `Offline` and `ShownLoad` are
what `GetAllNodes` works out when it is asked; a planned row has NULLs, its scan
fails and it is passed over. `NodeAlerts` defines the targets and conditions of
`AlertManager` from these, lets the clock pass for both, and restarts both.

### ConfigManager

`at` is the place of a request in `login` and the call that follows: the cached
token is looked at without the lock, settings read, Nacos dialled, the token
stored; then address and token are read, for a DELETE in two steps. Settings are
numbered as they are saved, each for a server of its own; a token is known by its
server and the server's `era`, which ends when tokens expire.

### LogStream

Each end of the two connections is open or closed (`near`, `far`), and a
connection holds `Window` lines before a write blocks. The tail is the library's
goroutine, hpcloud/tail v1.0.0: it hands a line over by a plain send on an
unbuffered channel, and notices that it is told to stop between two lines only.

### RemoteCommand

`RecordLog` starts a goroutine that writes the entry later, which is why an entry
may be inserted below younger ones of other commands. `reader` walks the pages.

### BackupManager

The content of the database, and of one package in the uploads directory, is the
number of the last change; `Torn` is a file that was not written to its end. A
package is emptied and filled in two steps (`Upload`, `Uploaded`), as
`LocalProvider.Save` writes in place, and the walk of the archive sees it
(`ListFiles`) before it opens it (`AddFile`). `aside` holds the files
`ops_data.db.rollback.<second>`. `by` is who has a snapshot or an archive open: who
removed the name left its writer with a file without one. `alone`, `stirred` and
`clash` are ghosts: a backup no request ran beside, a package that was uploaded or
deleted since, and restores that ran at the same time.

### MemoryTSDB, SystemManager, PackageStore, Collector

`ReadClock` and `Write` are apart because the clock is read before the lock; the
value of a point is the number of its write. `GetFullView` and `ListFiles` read
their tables and files one after the other, while handlers change them. In
`Collector` a speed is kept as the bytes and the time it came from, so that
speeds can be added up; the counter wraps at `Word`, 2^64 in the code, and falls
when a network card goes (`RemoveCard`).

## 3. Runs

Every run finishes within four minutes on two cores.

| run | instance | shows |
|---|---|---|
| `package_cache` | 1 file, 2 goroutines, 2 uploads of 2 chunks | `SingleDownloader`, `BodyComplete`, `TornOnlyByOverlap`, `CacheWriteOnce`, and `CallReturns`: no error path keeps a lock, and only a download that never ends keeps a call |
| `executor` | 3 calls on one packaged instance, 2 pids, reuse | `Tracked`, `NoProcessWithoutFiles`, `StopStops`, and `ImplementsPromise`: the worker implements `Supervisor` |
| `executor_kill` | a packaged instance and two adopted ones, of which one look-up fits a stranger's process too; no reuse | `KillsFitting` |
| `lifecycle` | 2 commands, from nothing with DeleteSystem, or on an instance that runs; all faults, system actions | `LifecycleInv` (types, and `DeployUnderWay`), `NoResurrection`, `DestroyedIsGone` |
| `lifecycle_live` | one command on a running instance, all faults, late reports | `RowFollows` (`CrashNoticed`, `RunShown`) |
| `nodes` | one node, one rule of three kinds, 4 moves of operator, machine and network, 2 heartbeats at a time | `NodesInv` (types, and `FiguresHaveNode`), `NamesKept`, `ListFollows` (`AliveShown`, `DeadShown`), `AlertsFollow` (`DeadRaised`, `AliveSettled`) |
| `services` | hub, Nacos proxy, log stream, remote commands, alerts | `ServicesInv` (types, and `LogSound`), `CleanMeansSent`; with fairness `Converges`, `Forgotten`, `HandlersReturn`, `RetryHelps`, `StreamEnds`, `StateFollows` |
| `records` | series, backups, catalogue, package list, counters, alerts, Nacos proxy | `AllTypeOK`, `QueryComplete`, `GoneStaysGone`, `BytesAccounted`, `StatesNameEvents`, `TokenFitsServer`, `BackupHolds`, `NothingLost`, `ListSound`, `NeverForgotten`, `Debounced` |
| `stuck_running`, `alerts_stale`, `hub_alert`, `stream_leak` | as small as shows it | violated: see Findings |

`services` and `records` each look at several parts that share no state and call
nothing of each other. `part` is chosen at the start and stays; only that part
moves, and the others rest in their initial states. Such a run has every
behaviour of every part and not the product of them, which would say no more:
each property reads the variables of one part. A pure safety check affords larger
instances, so that the alerts and the Nacos proxy are in both: two rules and five
changes in `records`, one rule and the liveness in `services`. Parts that do
interact are composed for real, in `InstanceLifecycle` and `NodeAlerts`.

Bounds, and why they are enough:

- *Calls.* Each call is issued once. Every race in the executor is between two
  handlers of one instance; the third call of `executor` makes the state they
  meet (installed, or running). The proofs below need no bound.
- *Pids.* Two allow a double start, and a pid that is reused while the other runs.
- *Instances.* The handlers of two instances share nothing but pids, which
  `Other` takes as well as a second instance would.
- *MaxLate.* Reports whose sender has given up. One is enough to overtake; the
  safety runs of the lifecycle set it to 0 and let a call's own report be late.
- *Uploads, Chunks.* Two of two: a download that sees a truncated file, a
  half-written one, and a mixture of both.
- *MaxTurns* in the alerts: figures that change, targets that come or go, and
  restarts, together. Five include "fires, restarts, recovers, fires again";
  for liveness, where only what happens last counts, four.
- *MaxMoves* of the nodes: operators, machine, network and restarts together. Four
  include "boots, is deleted while a heartbeat is handled, one is lost, dies". An
  age that passes the threshold of a worker that is up counts as a move as well:
  without a bound the network could be too slow for ever.
- *Nodes.* One: rows, figures and heartbeats of two nodes do not meet.
- *Nacos.* Two settings let one be saved while a login for the other is under way;
  one GET and one call that writes.
- *Backups.* Three requests of which two run at a time: backup, backup and restore
  of either, with one crash or full disk, one tick of the clock, and one change of
  the database or upload of the package; deletions without a bound. One package:
  each file is opened and copied on its own.
- *Series.* A capacity of two and four points by two writers: trimmed with the
  young point in front, behind, or nowhere. The theorem has no bound.
- *Log stream.* Connections that hold one line, and any number of lines.
- *Pages* of one entry, over the log of two commands.
- *Counter.* `Word` is four, up to three bytes between readings: it overflows often.
  A card that goes takes any count with it.
- *Catalogue, package list.* Two systems with a module and an instance of either;
  two names, one with a slash, in two versions.
- *MaxAge* is the longest duration; ages beyond it make no difference.
- *Browsers.* `CleanMeansSent` speaks of one browser at a time, and what others
  do to it is hold h.mu, which a browser that does not read does as well.
- *MaxVersion.* Two versions of a view let an older one overtake a newer one.
- *Kinds of views.* One, the nodes, which change with and without a publisher: what
  happens to systems, which change with one only, is among what happens to nodes.
  Two kinds share nothing but the lock and the pass, which one kind takes as well.
- Symmetry is used for calls, operators and writers, in safety runs only.

`lifecycle`, in a part of its behaviours, `lifecycle_live` and `stuck_running` start
from `InitUp`, a reachable state: one deployed instance that runs and is shown running.

### Fairness

- A goroutine that can take a step takes it (weak), for the handlers and for the
  deploy goroutines. An exchange by `PostJSON` ends, since its client has a timeout
  (`pkg/utils/http_client.go:18`).
- Nothing is assumed of the exchanges without one: the download of a package
  (`http.Get` at `instance_manager.go:166`), which may last for ever and keeps the
  lock of its file, and the calls to Nacos (`config_manager.go:80`, `:123`, `:151`,
  `:170`). `CallReturns` names that wait as the only one; `RowFollows` holds beside
  it; `RetryHelps` asks for no call to end.
- `sync.Mutex` does not starve a waiter (starvation mode): strong fairness for
  `Lock` in the cache and for the steps of the hub that wait for h.mu.
- `select` chooses at random among ready channels and a channel serves its
  senders in order: strong fairness for a handler that waits for `Run`. That a
  handler has something to publish is not assumed.
- The monitor's rounds go on for ever, a crash may cut some of them, and not all
  of its reports are lost: strong fairness for `Examine`, `Check` and the
  delivery of a monitor report. No single report is assumed to arrive.
- The alert ticker fires for ever; time passes, though never while a pass holds
  its one reading of the clock (strong fairness for `Tick`, `Clock`). A pass
  publishes the alerts it raises and closes with am.mu held, and so hangs with the
  hub: that it ends (weak fairness for `Evaluate`, `Engine`) assumes that no browser
  stops reading, and `StateFollows` and `AlertsFollow` hold only while none does.
- A worker that is up sends one heartbeat after another, as its ticker fires for
  ever; a heartbeat that has arrived is handled (weak). Losses are moves, of
  which there are finitely many.
- The four loops of a log stream run; nobody has to read or to write a line.
- No fairness for crashes, losses, operators, browsers or the kernel.

In `services` only one part moves in a behaviour, so that fairness of one action
in each of several parts is stated once, for their disjunction (`AllFairness`): in
a behaviour of one part the disjunction is that part's action.

`HandlersReturn`, `Converges` and `Forgotten` are about a hub that no browser
blocks. The code sets no write deadline, so one browser that stops reading
without closing its connection holds h.mu and stops everything. That is recorded
as a hazard at `internal/master/ws/hub.go:110`. `Converges` promises the view that
was published last, which may be older than the tables: it is theirs only if the
view goes on being published. `StreamEnds` excepts a browser that does not read for
the same reason, and the one way in which the worker's three goroutines wait for
each other, which is the finding `stream_leak`.

### Findings

Four runs are expected to be violated. Each checks what a comment of the
repository says.

- `stuck_running` (`StopShown`): the monitor takes a "running" report, the
  instance is stopped, the stop's own report is applied first and the monitor's
  second. An instance without a pid file is never reported again, "说明是停止状态"
  (`internal/worker/executor/monitor.go:63`), and the row says running for ever.
- `alerts_stale` (`ActiveEnds`): an event that was firing when the master stopped
  stays in the list of events that have not ended (`alert_manager.go:79`).
- `hub_alert` (`AlertsArrive`): alerts are handed to the hub for broadcast
  (`alert_manager.go:235`) and the browser waits for them
  (`web/src/store/wsStore.js:54`); `Run` drops every type but nodes and systems.
- `stream_leak` (`TailStopsWithClient`): the reader of a log's socket is to stop the
  tail when the client goes (`handler/log_stream.go:68`). If a write fails first, the
  loop over the lines ends; a tail with the next line in its hand then waits for the
  loop, and the handler and the reader wait in `t.Stop` for the tail.

What the modules show of the code besides, as hazards with notes in `PROJECT.json`:
the scan of "all local instances" (`executor/instance_manager.go:112`) takes ids from
what follows an underscore, the directory of an adopted service has none, and so its
death is never noticed;
after "restore failed (rolled back)" (`backup_manager.go:149`) the database stays
closed; two restores in one second lose the database; a full disk when the
archive is closed goes unnoticed; a package that is being uploaded is archived by half,
with success; a node that goes offline by its age is published to no browser; the open
events of a rule that is deleted, or of a target that is removed, stay open; `DeleteNode` is said to refuse online nodes
(`node_manager.go:112`) and does not; a POST never renews an expired token; a
package whose name holds a slash is never listed.

## 4. Proofs

TLAPS checks these for every value of the constants that meets the named
assumptions: `SizesAssumption`, `ExecutorAssumption`, `RegistryAssumption`,
`LifecycleAssumption`, `NodeAssumption`, `TsdbAssumption`, `BackupAssumption`,
`StoreAssumption` and `CollectorAssumption`, which TLC evaluates on every run of their
modules. `HubAssumption`, `AlertAssumption`, `ConfigAssumption`, `PageAssumption` and
`WindowAssumption` are hypotheses of the theorems instead; TLC evaluates them for the
constants of `services` and `records`. No theorem uses a bound on how often things
happen beyond its being a number.

- `PackageCache_proofs`: `TypeCorrect`, `OneDownloader`, `NoShortBody`,
  `Immutable`, `Untorn` (`TornOnlyByOverlap`). The inductive invariant `IInv` adds
  to the types: whoever is in the critical section is the lock's only holder
  (`LockInv`); whoever downloads found the cache empty and it still is (`MissInv`,
  which is what the second `os.Stat` under the lock buys); and the temporary file
  is as long as what its goroutine has read (`TmpInv`). From `MissInv`, renaming
  never replaces a package; from `TmpInv`, what is renamed has the announced
  length. For `Untorn`, `CleanInv` adds that a download no upload has overlapped
  reads one whole upload, and that the temporary file holds chunks of it alone.
- `InstanceExecutor_proofs`: `TypeCorrect`, `NothingLost` (`Tracked`),
  `NoOrphans`, `StopsForGood`, `KillsWhatFits` (`KillsFitting`), `Refinement`
  (`ImplementsPromise`). `Tracked` alone is not inductive: it says nothing
  while a handler is at work. `IInv` adds that an instance without overlap has
  at most one handler (`AloneInv`), that an instance never named has nothing
  (`FreshInv`), that a pid file needs a directory (`FileInv`), which labels an
  operation can reach (`LabelInv`), and what the one handler knows at each label
  about processes and pid file (`KnowsInv`): between `cmd.Start` and
  the writing of the pid, say, the only process is the one in its local variable.
  `KillsWhatFits` is about all handlers, overlapping ones too, and needs that no
  pid is used again: `OwnInv` says that a pid that a file or a handler names is its
  own instance's, or that of a process its look-up fits, or nobody's. For `Refinement`, under `IInv` the mapping
  `Standing` is never "broken" (`StandingIs`), and each action moves at most one
  service by a step that `Supervisor` allows (`OneMoves`, `Starting`, `Ending`,
  `Filing`, `Arrival`), or several to "unknown" (`Crashing`).
- `InstanceLifecycle_proofs`, on the master and the worker together, with every
  fault: `ForgottenIsGone` (`DestroyedIsGone`), `NoneReturns` (`NoResurrection`),
  `DeploymentsEnd` (`LifecycleInv`), and that the worker keeps what it was shown to
  keep for any client: `HeldBesideMaster` (`Tracked`, `NoProcessWithoutFiles`),
  `KillsFittingBesideMaster`, `PromiseBesideMaster` (`ImplementsPromise`). Each step of
  the composition is one of the worker's with any client, one that leaves the worker
  alone (`Clerical`), or an answer or report that changes hands, so that `IInv`
  carries over. `LifecycleIInv` adds: an instance that was never commanded in
  a hurry has one command pending (`HurryInv`), a destroy is answered last
  (`AnswerInv`), and between its success and the master's reading of it nothing of
  the instance is left and nothing under way could bring it back (`GoneInv`), which
  is what `NoResurrection` turns on. Without faults, a row in "deploying" has a
  deploy at work or its outcome in `reports` (`ReportInv`, `DeployInv`).
- `BackupManager_proofs`: `BackupIsWhole` (`BackupHolds`), `NoDatabaseIsLost`
  (`NothingLost`), `BackupTypeCorrect`. What a backup that nothing ran beside has in
  its hands at each stage is `HoldsInv`: its snapshot is the database it read, the
  archive is its own unless its name was removed, in which case there is none, and
  the package in it is the one in the directory unless that was stirred.
  That a failed restore can put the database back is `AsideInv`: as long as no two
  restores ran at a time (`ClashInv`), what is put aside under the present second is
  the work of the restore under way, so that putting aside replaces nothing
  (`PlaceIsFree`) and what was there before stays somewhere (`HeldStays`).
- `Records_proofs`:
  - `QueryIsComplete` (`QueryComplete`), `SeriesTypes`. What a query returns says
    nothing about points that are too old to be asked for, so the invariant adds that
    what is stored was written (`RealInv`), that what was written and is still young
    is stored (`KeptInv`), and that no writer carries a time of the future
    (`StampInv`). The lemma `TrimKeepsYoung` is about the cut: every point in front
    of the first young one is old, whatever their order.
  - `DeletedIsNotShown` (`GoneStaysGone`). `CatalogIInv` adds that no identifier is
    used again, and that the systems a reader has in its hand do not meet those that
    were gone when it began.
  - `EveryByteCounts` (`BytesAccounted`). `NetIInv` says that the counter is what was
    last read plus the bytes since, less at most one `Word`, as long as no card has
    gone, and that the durations reported are the time since the first reading; the
    lemma `WrapOnce` is the arithmetic of one overflow, and the reason that `MaxBurst`
    is below `Word`.
  - `ListIsSound` (`ListSound`, an action property). `StoreIInv` says that a package
    that was there throughout the walk is yet to be visited or was found. The lemma
    `GreatestExists` shows that a finite set of times has a last one, which names the
    time a group of versions is listed with.
  - `RecordsTypeCorrect` (`AllTypeOK`): the types of all seven parts of the run.
- `NodeAlerts_proofs`: `NoFiguresLeak` (`NodesInv`: the types and
  `FiguresHaveNode`), `GivenNamesStay` (`NamesKept`). A deletion decides whether
  there is a row by its contents, so the invariant adds that a row with status "none"
  has nothing in it (`RowInv`). The cases to argue are a heartbeat between the cache
  and the table, which is its own witness for the figures it stored, and a node that
  dies or a client that gives up, which abandon the answer of a heartbeat but not its
  handling. For the names, the upsert is the step to argue: it takes the name that is
  there, unless there is no row, which it decides by the same contents.
- `Services_proofs`:
  - `HubTypeCorrect`, `NothingMissed` (`CleanMeansSent`). A pass may carry a view that
    has been replaced since it was collected, so the invariant adds that this can only
    be if the view is dirty again (`CarriedInv`): sending it then breaks no promise.
    That h.clients is still while it is walked needs that only a writing pass has
    clients left (`TodoInv`), and the lock.
  - `LogTellsTheTruth` (`LogSound`). What the log calls a success goes back over the
    goroutine of `RecordLog` and the answer to a command that is sent once (`RanInv`).
    What a reader has yet to see lies on the page it asks for next or behind it
    (`PagesInv`): an entry inserted in front only moves others back (`InsertMoves`),
    and a page ends where the next begins (`PageHolds`, `OffsetNext`).
  - `ServicesSound` (`ServicesInv`): the above, and the types of all five parts of the
    run, among them that errChan and the connections of a log stream never hold more
    than they can.
- `AlertsNacos_proofs`:
  - `MemoryMatchesTable` (`StatesNameEvents`), `NoneForgotten` (`NeverForgotten`),
    `NothingHasty` (`Debounced`). The invariant adds that a state is no older than the
    time its target has been seen wrong (`HeatInv`). What every step does to the table
    is one fact (`Keeps`): rows keep their key, and none opens again; with it, two
    states cannot name one event, so closing one leaves the others' events alone.
    `NoneForgotten` says in which ways an event comes to stay open with no pass to close
    it, and that handling a state is none of them; the late alert of a rule that was
    deleted needs that a pass applies only what it has read (`PassInv`).
  - `TokensFit` (`TokenFitsServer`). The invariant adds that token and address in the
    cache belong together (`CacheInv`), that a request about to store a token has it
    from the server it dialled (`CfgInv`, `OwnInv`), and that only a DELETE reads the
    token on its own (`ApartInv`): that one may take a token elsewhere, and the
    theorem does not speak of it.

The strengthened invariants were checked by TLC on instances before they were proved.

Every invariant that a passing run checks is stated by a theorem, and so is every
action property (`[][A]_v`). Only model-checked is all liveness, which TLAPS as used
here does not prove: `CallReturns`, `RowFollows`, `ListFollows`, `AlertsFollow`,
`Converges`, `Forgotten`, `HandlersReturn`, `RetryHelps`, `StreamEnds`,
`StateFollows`.

## 5. What is left out

- Two packages whose `name_version` coincide (`a_b`, 1 and `a`, `b_1`).
- SQLite errors, which the code ignores in most places; the NULLs of a planned node
  and the failures of `VACUUM` are modelled.
- A destroy whose RemoveAll removes part of a directory and fails.
- The right of the worker to signal a process: it is taken to have it.
- Reading manifests and icons of packages, presigned uploads, the MinIO provider.
- The search for the path of a log: it is found or it is not.
- The search for words in the operation log.
- CPU, memory and disk figures, which are read and passed on.
- What is measured, formatted, logged or laid out, and the front end.
- The components with status `not_modelled`, each with its reason.

## 6. Plan

Done: every component that keeps state others read; master and worker composed
(`InstanceLifecycle`), nodes and alerts composed (`NodeAlerts`), the worker's
refinement of `Supervisor`, alone and beside the master, the proofs of section 4.

Next: the alert engine on what the registry shows (`NodeAlerts`), whose composition
the theorems about `AlertManager` do not yet speak of; and lemmas that the liveness
arguments rest on (who holds h.mu, who waits for the tail).
