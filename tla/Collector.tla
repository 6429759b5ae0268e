----------------------------- MODULE Collector -----------------------------
(***************************************************************************)
(* The network speed in the worker's status: GetStatus takes the           *)
(* difference of two readings of a counter of the operating system, in     *)
(* unsigned arithmetic of a fixed width, and divides it by the time        *)
(* between them.  The counter is the sum of those of the network cards     *)
(* there are: it falls when a card is removed.                             *)
(*                                                                         *)
(* The speed is kept as the bytes and the time it was computed from, so    *)
(* that the speeds reported can be added up.                               *)
(***************************************************************************)
EXTENDS Integers

CONSTANTS
    Word,      \* the counter counts modulo this: 2^64
    MaxBurst,  \* bytes moved between two readings
    MaxUptime  \* bound: the clock

ASSUME CollectorAssumption ==
    /\ Word \in Nat \ {0} /\ MaxUptime \in Nat
    /\ MaxBurst \in 0..(Word - 1)

VARIABLES
    uptime,   \* time.Now
    moved,    \* bytes moved since the first reading
    idle,     \* bytes moved since the last reading
    counter,  \* BytesRecv of the operating system
    last,     \* lastNetStat and lastNetTime
    reported, \* the sum of speed times duration, and of the durations
    first,    \* when the first reading was taken
    cards     \* the network cards since: all of them, or fewer

netVars == <<uptime, moved, idle, counter, last, reported, first, cards>>

Wrap(n)  == n % Word
Never    == -1

NetTypeOK ==
    /\ uptime \in 0..MaxUptime /\ moved \in Nat /\ idle \in 0..MaxBurst
    /\ counter \in 0..(Word - 1)
    /\ last \in [bytes : 0..(Word - 1), time : {Never} \cup 0..MaxUptime]
    /\ reported \in [bytes : Nat, time : 0..MaxUptime]
    /\ first \in {Never} \cup 0..MaxUptime /\ cards \in {"all", "fewer"}

InitNet ==
    /\ uptime = 0 /\ moved = 0 /\ idle = 0
    /\ counter \in 0..(Word - 1)
    /\ last = [bytes |-> 0, time |-> Never]
    /\ reported = [bytes |-> 0, time |-> 0]
    /\ first = Never /\ cards = "all"

\* The counter of the operating system overflows.
Move(n) ==
    /\ n > 0 /\ idle + n <= MaxBurst
    /\ idle' = idle + n
    /\ moved' = IF last.time = Never THEN 0 ELSE moved + n
    /\ counter' = Wrap(counter + n)
    /\ UNCHANGED <<uptime, last, reported, first, cards>>

\* What a card has counted is no longer part of the sum.
RemoveCard(n) ==
    /\ counter' = Wrap(counter - n)
    /\ cards' = IF last.time = Never THEN "all" ELSE "fewer"
    /\ UNCHANGED <<uptime, moved, idle, last, reported, first>>

TimePasses ==
    /\ uptime < MaxUptime
    /\ uptime' = uptime + 1
    /\ UNCHANGED <<moved, idle, counter, last, reported, first, cards>>

\* Mutant: a counter that is lower than before is taken to have stood still.
DiffClamped(now, before) == IF now < before THEN 0 ELSE now - before

\* uint64 subtraction.
Diff(now, before) == Wrap(now - before)

\* A reading that fails leaves the last one as it is; the first one has nothing
\* to be compared with.  Readings are a heartbeat apart: time has passed.
GetStatus ==
    /\ uptime # last.time
    /\ last' = [bytes |-> counter, time |-> uptime]
    /\ idle' = 0
    /\ reported' = IF last.time = Never THEN reported
                   ELSE [bytes |-> reported.bytes + Diff(counter, last.bytes),
                         time |-> reported.time + (uptime - last.time)]
    /\ first' = IF last.time = Never THEN uptime ELSE first
    /\ UNCHANGED <<uptime, moved, counter, cards>>

NextNet ==
    \/ \E n \in 1..MaxBurst : Move(n)
    \/ \E n \in 1..(Word - 1) : RemoveCard(n)
    \/ TimePasses \/ GetStatus

NetSpec == InitNet /\ [][NextNet]_netVars

-----------------------------------------------------------------------------
(***************************************************************************)
(* Properties                                                              *)
(***************************************************************************)

\* The speeds reported account for every second between the first reading and the
\* last, and, while no network card is removed, for every byte: across readings
\* that failed and a counter that overflowed, of less than a counter's worth
\* between two readings.  (A card that is removed is reported as a burst of almost
\* a counter's worth.)
BytesAccounted ==
    last.time # Never =>
        /\ reported.time = last.time - first
        /\ cards = "all" => reported.bytes = moved - idle
=============================================================================
