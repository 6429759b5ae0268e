--------------------------- MODULE RemoteCommand ---------------------------
(***************************************************************************)
(* A command that an operator sends to a node, and the log of operations:  *)
(* TriggerCmd of the master, handleExec of the worker, the goroutine of    *)
(* RecordLog that writes each entry, and a client that walks the log page  *)
(* by page with GetLogs.                                                   *)
(*                                                                         *)
(* The master gives up after ten seconds; the worker knows nothing of it,  *)
(* and the command runs on.  Entries carry the second they are written in, *)
(* so that a goroutine that is late puts its entry below younger ones.     *)
(***************************************************************************)
EXTENDS Integers, SequencesExt

CONSTANTS
    Commands,   \* commands sent, each once
    PageSize    \* entries on a page

\* Of the constants.
PageAssumption == PageSize \in Nat \ {0}

VARIABLES
    trigger,  \* TriggerCmd: idle, waiting, answered
    exec,     \* the command on the node: none, sent, running, ok, failed, killed
    reply,    \* what comes back: none, ok, failed, or cut off
    pending,  \* goroutines of RecordLog: command and status
    log,      \* sys_op_logs, youngest first
    reader    \* who walks the pages: the next page, 0 when not walking; entries
              \* there were at the start; entries seen; are we through?

commandVars == <<trigger, exec, reply, pending, log, reader>>

Entries == Commands \X {"success", "fail"}

CommandTypeOK ==
    /\ trigger \in [Commands -> {"idle", "waiting", "answered"}]
    /\ exec \in [Commands -> {"none", "sent", "running", "ok", "failed", "killed"}]
    /\ reply \in [Commands -> {"none", "ok", "failed", "cut"}]
    /\ pending \subseteq Entries
    /\ log \in Seq(Entries)
    /\ reader \in [page : Nat, wanted : SUBSET Entries, seen : SUBSET Entries, through : BOOLEAN]

InitCommand ==
    /\ trigger = [c \in Commands |-> "idle"]
    /\ exec = [c \in Commands |-> "none"]
    /\ reply = [c \in Commands |-> "none"]
    /\ pending = {} /\ log = <<>>
    /\ reader = [page |-> 0, wanted |-> {}, seen |-> {}, through |-> FALSE]

-----------------------------------------------------------------------------
(***************************************************************************)
(* The master                                                              *)
(***************************************************************************)

\* A node that is not known is answered without an entry.
TriggerCmd(c) ==
    /\ trigger[c] = "idle"
    /\ \/ trigger' = [trigger EXCEPT ![c] = "waiting"] /\ exec' = [exec EXCEPT ![c] = "sent"]
       \/ trigger' = [trigger EXCEPT ![c] = "answered"] /\ UNCHANGED exec
    /\ UNCHANGED <<reply, pending, log, reader>>

RecordLog(c, status) == pending' = pending \cup {<<c, status>>}

\* Mutant: the status is what became of the request, not of the command.
StatusOfCall(c) == IF reply[c] = "cut" THEN "fail" ELSE "success"

Status(c) == IF reply[c] = "failed" THEN "fail" ELSE "success"

\* An answer that cannot be decoded is not logged.
Answered(c) ==
    /\ trigger[c] = "waiting" /\ reply[c] # "none"
    /\ trigger' = [trigger EXCEPT ![c] = "answered"]
    /\ IF reply[c] = "cut" THEN UNCHANGED pending ELSE RecordLog(c, Status(c))
    /\ UNCHANGED <<exec, reply, log, reader>>

\* Ten seconds have passed, or there is no connection.
NetworkError(c) ==
    /\ trigger[c] = "waiting"
    /\ trigger' = [trigger EXCEPT ![c] = "answered"]
    /\ RecordLog(c, "fail")
    /\ UNCHANGED <<exec, reply, log, reader>>

\* The goroutine of RecordLog; ORDER BY create_time DESC.
WriteLog(e) ==
    /\ e \in pending
    /\ pending' = pending \ {e}
    /\ \E n \in 1..(Len(log) + 1) : log' = InsertAt(log, n, e)
    /\ UNCHANGED <<trigger, exec, reply, reader>>

\* Entries that have not been written are lost, the command runs on.
RestartMaster ==
    /\ \E c \in Commands : trigger[c] = "waiting"
    /\ pending' = {}
    /\ trigger' = [c \in Commands |-> IF trigger[c] = "waiting" THEN "answered" ELSE trigger[c]]
    /\ UNCHANGED <<exec, reply, log, reader>>

-----------------------------------------------------------------------------
(***************************************************************************)
(* The worker                                                              *)
(***************************************************************************)
HandleExec(c) ==
    /\ exec[c] = "sent"
    /\ exec' = [exec EXCEPT ![c] = "running"]
    /\ UNCHANGED <<trigger, reply, pending, log, reader>>

\* A command may as well never end.
CommandEnds(c) ==
    /\ exec[c] = "running"
    /\ \E result \in {"ok", "failed"} :
          /\ exec' = [exec EXCEPT ![c] = result]
          /\ \E r \in {result, "cut"} : reply' = [reply EXCEPT ![c] = r]
    /\ UNCHANGED <<trigger, pending, log, reader>>

WorkerDies ==
    /\ \E c \in Commands : exec[c] \in {"sent", "running"}
    /\ exec' = [c \in Commands |-> IF exec[c] \in {"sent", "running"} THEN "killed" ELSE exec[c]]
    /\ UNCHANGED <<trigger, reply, pending, log, reader>>

-----------------------------------------------------------------------------
(***************************************************************************)
(* GetLogs                                                                 *)
(***************************************************************************)

\* Mutant: pages are counted from zero.
OffsetFromZero(page) == page * PageSize

Offset(page) == (page - 1) * PageSize

GetLogs(page) == SubSeq(log, Offset(page) + 1, Min({Offset(page) + PageSize, Len(log)}))

StartReading ==
    /\ reader.page = 0
    /\ reader' = [page |-> 1, wanted |-> ToSet(log), seen |-> {}, through |-> FALSE]
    /\ UNCHANGED <<trigger, exec, reply, pending, log>>

\* A page that is not full is the last one.
ReadPage ==
    /\ reader.page > 0
    /\ LET list == GetLogs(reader.page) IN
       reader' = [reader EXCEPT !.seen = @ \cup ToSet(list),
                                !.page = IF Len(list) < PageSize THEN 0 ELSE @ + 1,
                                !.through = Len(list) < PageSize]
    /\ UNCHANGED <<trigger, exec, reply, pending, log>>

Master(c) == Answered(c) \/ NetworkError(c)

NextCommand ==
    \/ \E c \in Commands : TriggerCmd(c) \/ Master(c) \/ HandleExec(c) \/ CommandEnds(c)
    \/ \E e \in Entries : WriteLog(e)
    \/ RestartMaster \/ WorkerDies \/ StartReading \/ ReadPage

CommandSpec == InitCommand /\ [][NextCommand]_commandVars

-----------------------------------------------------------------------------
(***************************************************************************)
(* Properties                                                              *)
(***************************************************************************)

\* What the log calls a success has run on the node to a good end, whatever
\* timeouts, restarts and lost answers there were.  (What it calls a failure
\* may have, too.)
SuccessRan == \A n \in 1..Len(log) : log[n][2] = "success" => exec[log[n][1]] = "ok"

\* A client that reads page after page until one is not full sees every entry
\* there was when it began, whatever is inserted on the pages behind it.
PagesComplete == reader.through => reader.wanted \subseteq reader.seen

\* The log of operations tells the truth, and is read as a whole.
LogSound == SuccessRan /\ PagesComplete
=============================================================================
