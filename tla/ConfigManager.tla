--------------------------- MODULE ConfigManager ---------------------------
(***************************************************************************)
(* The proxy of the master to a Nacos server: the settings in sys_settings *)
(* and the token and base URL that login caches in memory.                 *)
(*                                                                         *)
(* Each request runs login, which reads the cache without the lock and     *)
(* talks to Nacos without it; the cache is written, and read for the       *)
(* request, under cm.mu -- but for the token of a DELETE.  Settings are    *)
(* numbered as they are saved; each is taken to name a server of its own,  *)
(* and a token is known by the settings and the era of the server that     *)
(* issued it.                                                              *)
(***************************************************************************)
EXTENDS Integers, FiniteSets

CONSTANTS
    Calls,        \* requests under way at a time
    Methods,      \* of each, the methods it may use
    MaxSaves,     \* bound: settings saved
    MaxFaults     \* bound: tokens that expire and connections that fail

\* Of the constants.
ConfigAssumption ==
    /\ MaxSaves \in Nat /\ MaxFaults \in Nat
    /\ Methods \in [Calls -> SUBSET {"GET", "POST", "DELETE"}]

VARIABLES
    settings,  \* the settings in the table, 0 when there are none
    wrong,     \* those whose password the server rejects
    cache,     \* nacosToken and nacosBase
    era,       \* of each server: tokens of other eras have expired
    call,      \* requests
    faults     \* bound: faults so far

proxyVars == <<settings, wrong, cache, era, call, faults>>

Servers == 1..MaxSaves
NoToken == [by |-> 0, era |-> 0]
Garbage == [by |-> -1, era |-> 0]
Tokens  == [by : Servers, era : 0..MaxFaults] \cup {NoToken, Garbage}

NewCall(m, at) == [method |-> m, at |-> at, cfg |-> 0, base |-> 0, token |-> NoToken]

ProxyTypeOK ==
    /\ settings \in 0..MaxSaves
    /\ wrong \subseteq Servers
    /\ cache \in [token : Tokens \ {Garbage}, base : 0..MaxSaves]
    /\ era \in [Servers -> 0..MaxFaults]
    /\ call \in [Calls -> [method : {"GET", "POST", "DELETE"},
                           at : {"idle", "login", "settings", "dial", "store", "base", "token",
                                 "send", "forget", "ok", "failed"},
                           cfg : 0..MaxSaves, base : 0..MaxSaves, token : Tokens]]
    /\ faults \in 0..MaxFaults

InitProxy ==
    /\ settings = 0
    /\ wrong    = {}
    /\ cache    = [token |-> NoToken, base |-> 0]
    /\ era      = [s \in Servers |-> 0]
    /\ call     = [c \in Calls |-> NewCall("GET", "idle")]
    /\ faults   = 0

At(c, a)   == call[c].at = a
Goto(c, a) == call' = [call EXCEPT ![c].at = a]
Over(c)    == call[c].at \in {"idle", "ok", "failed"}
Fault      == faults < MaxFaults /\ faults' = faults + 1

\* Is the token one that this server accepts now?
Valid(t, s) == t = [by |-> s, era |-> era[s]]

-----------------------------------------------------------------------------
(***************************************************************************)
(* login                                                                   *)
(***************************************************************************)
Start(c, m) ==
    /\ Over(c) /\ m \in Methods[c]
    /\ call' = [call EXCEPT ![c] = NewCall(m, "login")]
    /\ UNCHANGED <<settings, wrong, cache, era, faults>>

\* Without the lock.
CheckCache(c) ==
    /\ At(c, "login")
    /\ Goto(c, IF cache.token # NoToken /\ cache.base # 0 THEN "base" ELSE "settings")
    /\ UNCHANGED <<settings, wrong, cache, era, faults>>

GetNacosConfig(c) ==
    /\ At(c, "settings")
    /\ call' = [call EXCEPT ![c].cfg = settings,
                            ![c].at = IF settings = 0 THEN "failed" ELSE "dial"]
    /\ UNCHANGED <<settings, wrong, cache, era, faults>>

Dial(c) ==
    /\ At(c, "dial")
    /\ LET s == call[c].cfg IN
       call' = IF s \in wrong THEN [call EXCEPT ![c].at = "failed"]
               ELSE [call EXCEPT ![c].at = "store", ![c].token = [by |-> s, era |-> era[s]]]
    /\ UNCHANGED <<settings, wrong, cache, era, faults>>

\* Under the lock, whatever has been saved since the settings were read.
StoreToken(c) ==
    /\ At(c, "store")
    /\ cache' = [token |-> call[c].token, base |-> call[c].cfg]
    /\ Goto(c, "base")
    /\ UNCHANGED <<settings, wrong, era, faults>>

-----------------------------------------------------------------------------
(***************************************************************************)
(* ProxyGet, ProxyPost, ProxyDelete                                        *)
(***************************************************************************)

\* Mutant: the token is not read under the lock that the base is read under.
BuildApart(c) ==
    /\ At(c, "base")
    /\ call' = [call EXCEPT ![c].base = cache.base, ![c].at = "token"]
    /\ UNCHANGED <<settings, wrong, cache, era, faults>>

\* Under the read lock; a DELETE reads only the base there.
Build(c) ==
    /\ At(c, "base")
    /\ call' = IF call[c].method = "DELETE"
               THEN [call EXCEPT ![c].base = cache.base, ![c].at = "token"]
               ELSE [call EXCEPT ![c].base = cache.base, ![c].token = cache.token, ![c].at = "send"]
    /\ UNCHANGED <<settings, wrong, cache, era, faults>>

\* A race with whoever writes it: a string read while it is written is neither.
ReadToken(c) ==
    /\ At(c, "token")
    /\ \E t \in {cache.token} \cup {Garbage : d \in {d \in Calls : call[d].at \in {"store", "forget"}}} :
           call' = [call EXCEPT ![c].token = t, ![c].at = "send"]
    /\ UNCHANGED <<settings, wrong, cache, era, faults>>

\* Without a base there is no URL.  A POST does not look at the status.
Send(c) ==
    /\ At(c, "send")
    /\ Goto(c, IF call[c].base = 0 THEN "failed"
               ELSE IF Valid(call[c].token, call[c].base) \/ call[c].method = "POST" THEN "ok"
               ELSE IF call[c].method = "GET" THEN "forget" ELSE "failed")
    /\ UNCHANGED <<settings, wrong, cache, era, faults>>

\* Mutant: an expired token is kept.
ForgetNothing(c) ==
    /\ At(c, "forget")
    /\ Goto(c, "failed")
    /\ UNCHANGED <<settings, wrong, cache, era, faults>>

\* 403: the token is cleared, whichever it is by now; the caller is to retry.
ForgetToken(c) ==
    /\ At(c, "forget")
    /\ cache' = [cache EXCEPT !.token = NoToken]
    /\ Goto(c, "failed")
    /\ UNCHANGED <<settings, wrong, era, faults>>

ConnectionFails(c) ==
    /\ Fault
    /\ call[c].at \in {"dial", "send"}
    /\ Goto(c, "failed")
    /\ UNCHANGED <<settings, wrong, cache, era>>

Request(c) ==
    \/ CheckCache(c) \/ GetNacosConfig(c) \/ Dial(c) \/ StoreToken(c)
    \/ Build(c) \/ ReadToken(c) \/ Send(c) \/ ForgetToken(c)

-----------------------------------------------------------------------------
\* Under the lock; the password is what the form holds.
SaveNacosConfig(rejected) ==
    /\ settings < MaxSaves
    /\ settings' = settings + 1
    /\ wrong' = IF rejected THEN wrong \cup {settings'} ELSE wrong
    /\ cache' = [token |-> NoToken, base |-> 0]
    /\ UNCHANGED <<era, call, faults>>

Expire(s) ==
    /\ Fault
    /\ era' = [era EXCEPT ![s] = @ + 1]
    /\ UNCHANGED <<settings, wrong, cache, call>>

NextProxy ==
    \/ \E c \in Calls : \/ \E m \in Methods[c] : Start(c, m)
                        \/ Request(c) \/ ConnectionFails(c)
    \/ \E rejected \in BOOLEAN : SaveNacosConfig(rejected)
    \/ \E s \in Servers : Expire(s)

ProxySpec == InitProxy /\ [][NextProxy]_proxyVars

-----------------------------------------------------------------------------
(***************************************************************************)
(* Properties                                                              *)
(***************************************************************************)

\* A GET or a POST never takes a token to another server than the one that
\* issued it, whatever is saved and whoever logs in while it is on its way.
TokenFitsServer ==
    \A c \in Calls :
        At(c, "send") /\ call[c].method # "DELETE" /\ call[c].token # NoToken
            => call[c].token.by = call[c].base

\* The caller of a GET that failed is told to retry: retries help.  Once the
\* faults are over, and with settings the server accepts, GETs do not go on
\* failing.  (Of GETs that follow one another: two at a time can go on clearing
\* each other's token.)  A GET that waits for Nacos for ever does not fail.
RetryHelps ==
    <>[](settings # 0 /\ settings \notin wrong) =>
        <>[][\A c \in Calls : call[c].method = "GET" /\ ~At(c, "failed") => ~At(c, "failed")']_proxyVars
=============================================================================
