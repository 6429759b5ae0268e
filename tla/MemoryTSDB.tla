----------------------------- MODULE MemoryTSDB -----------------------------
(***************************************************************************)
(* One series of the master's in-memory store of load figures.  A handler  *)
(* of a heartbeat reads the clock before it takes the lock, so the points  *)
(* of two handlers may be stored in the other order; a series that has     *)
(* grown too long loses the points in front of the first one that is young *)
(* enough.                                                                 *)
(*                                                                         *)
(* The value of a point is the number of the write.                        *)
(***************************************************************************)
EXTENDS Integers, Sequences

CONSTANTS
    Writers,    \* handlers that write to the series
    Retention,  \* how long a point is wanted
    Cap,        \* the length at which a series is trimmed
    MaxTime,    \* bound: the clock
    MaxWrites   \* bound: points written

ASSUME TsdbAssumption ==
    /\ Retention \in Nat /\ Cap \in Nat
    /\ MaxTime \in Nat /\ MaxWrites \in Nat

VARIABLES
    clock,   \* time.Now().Unix()
    stamp,   \* the time each writer has read, or NoTime
    series,  \* the points stored
    written  \* the points written since the master started

seriesVars == <<clock, stamp, series, written>>

NoTime == -1
Points == [time : 0..MaxTime, value : 0..MaxWrites]

SeriesTypeOK ==
    /\ clock \in 0..MaxTime
    /\ stamp \in [Writers -> {NoTime} \cup 0..MaxTime]
    /\ series \in Seq(Points)
    /\ written \subseteq Points

InitSeries ==
    /\ clock = 0
    /\ stamp = [w \in Writers |-> NoTime]
    /\ series = <<>>
    /\ written = {}

-----------------------------------------------------------------------------
ReadClock(w) ==
    /\ stamp[w] = NoTime
    /\ stamp' = [stamp EXCEPT ![w] = clock]
    /\ UNCHANGED <<clock, series, written>>

Young(s, cutoff) == {i \in 1..Len(s) : s[i].time >= cutoff}

\* Mutant: the points are taken to be in the order of their times.
TrimSorted(s, cutoff) ==
    LET old == (1..Len(s)) \ Young(s, cutoff)
    IN  IF old = {} THEN s
        ELSE SubSeq(s, 1 + (CHOOSE i \in old : \A j \in old : i >= j), Len(s))

\* From the first point that is young enough on; all of it if there is none.
Trim(s, cutoff) ==
    LET young == Young(s, cutoff)
    IN  IF young = {} THEN s
        ELSE SubSeq(s, CHOOSE i \in young : \A j \in young : i <= j, Len(s))

\* Under the lock.
Write(w) ==
    /\ stamp[w] # NoTime
    /\ \E n \in 1..MaxWrites :
          LET p    == [time |-> stamp[w], value |-> n]
              data == Append(series, p)
          IN  /\ \A q \in written : q.value # n
              /\ series' = IF Len(data) > Cap THEN Trim(data, stamp[w] - Retention) ELSE data
              /\ written' = written \cup {p}
    /\ stamp' = [stamp EXCEPT ![w] = NoTime]
    /\ UNCHANGED clock

\* The points of the answer; their order is that of the series.
QueryRange(start, end) ==
    {p \in {series[i] : i \in 1..Len(series)} : p.time >= start /\ p.time <= end}

NextSecond ==
    /\ clock < MaxTime
    /\ clock' = clock + 1
    /\ UNCHANGED <<stamp, series, written>>

\* The store is in memory only.
NewSeries ==
    /\ series' = <<>> /\ written' = {}
    /\ stamp' = [w \in Writers |-> NoTime]
    /\ UNCHANGED clock

NextSeries == (\E w \in Writers : ReadClock(w) \/ Write(w)) \/ NextSecond \/ NewSeries

SeriesSpec == InitSeries /\ [][NextSeries]_seriesVars

-----------------------------------------------------------------------------
(***************************************************************************)
(* Properties                                                              *)
(***************************************************************************)

\* A query that does not ask for more than is retained is answered with all the
\* points written in its range and no others, in whatever order the handlers
\* got the lock and however often the series was trimmed.
QueryComplete ==
    \A start \in (clock - Retention)..clock : \A end \in start..clock :
        QueryRange(start, end) = {p \in written : p.time >= start /\ p.time <= end}
=============================================================================
