--------------------------- MODULE Records_proofs ---------------------------
(***************************************************************************)
(* Proofs about what is recorded: the in-memory series, the system         *)
(* catalogue, the network counters and the list of packages, each for any  *)
(* values of its constants, and the types of all the parts together.       *)
(* Those of the alerts, of the Nacos proxy and of backup and restore have  *)
(* modules of their own.                                                   *)
(***************************************************************************)
EXTENDS MCRecords, AlertsNacos_proofs, BackupManager_proofs, WellFoundedInduction

-----------------------------------------------------------------------------
(***************************************************************************)
(* The in-memory series                                                    *)
(***************************************************************************)

\* What a handler has read of the clock is not in the future.
StampInv == \A w \in Writers : stamp[w] # NoTime => stamp[w] <= clock

\* Nothing is stored that was not written.
RealInv == \A i \in 1..Len(series) : series[i] \in written

\* A point that is young enough is still stored.
KeptInv ==
    \A p \in written : p.time >= clock - Retention => \E i \in 1..Len(series) : series[i] = p

SeriesIInv == SeriesTypeOK /\ StampInv /\ RealInv /\ KeptInv

\* A set of naturals that is not empty has a least element.
LEMMA LeastExists ==
    ASSUME NEW S \in SUBSET Nat, S # {}
    PROVE  \E i \in S : \A j \in S : i <= j
<1> DEFINE R == OpToRel(<, Nat)
<1>1. IsWellFoundedOn(R, Nat)
  BY NatLessThanWellFounded
<1>2. PICK i \in S : \A j \in S : <<j, i>> \notin R
  <2> HIDE DEF R
  <2> QED BY <1>1, WFMin
<1>3. \A j \in S : ~(j < i)
  BY <1>2 DEF OpToRel
<1> HIDE DEF R
<1>4. \A j \in S : i <= j
  BY <1>3
<1> QED BY <1>4

\* MemoryTSDB.Write's trimming: what is left is of the series, and every point
\* that is young enough is left.
LEMMA TrimKeepsYoung ==
    ASSUME NEW s \in Seq(Points), NEW cutoff \in Int
    PROVE  /\ Trim(s, cutoff) \in Seq(Points)
           /\ \A i \in 1..Len(Trim(s, cutoff)) : \E j \in 1..Len(s) : Trim(s, cutoff)[i] = s[j]
           /\ \A i \in 1..Len(s) : s[i].time >= cutoff =>
                  \E j \in 1..Len(Trim(s, cutoff)) : Trim(s, cutoff)[j] = s[i]
<1> DEFINE young == Young(s, cutoff)
           m     == CHOOSE i \in young : \A j \in young : i <= j
           t     == SubSeq(s, m, Len(s))
<1>1. CASE young = {}
  <2>1. Trim(s, cutoff) = s
    BY <1>1 DEF Trim
  <2>2. \A i \in 1..Len(s) : ~(s[i].time >= cutoff)
    BY <1>1 DEF Young
  <2> QED BY <2>1, <2>2
<1>2. CASE young # {}
  <2>1. young \in SUBSET Nat
    BY DEF Young
  <2>2. m \in young /\ \A j \in young : m <= j
    <3> HIDE DEF young
    <3> QED BY <1>2, <2>1, LeastExists
  <2>3. m \in 1..Len(s)
    BY <2>2 DEF Young
  <2>4. Trim(s, cutoff) = t
    BY <1>2 DEF Trim
  <2>5. Len(s) \in Nat
    BY LenProperties
  <2>6. \A i \in m..Len(s) : s[i] \in Points
    BY <2>3, <2>5, ElementOfSeq
  <2> HIDE DEF m, young
  <2>7. /\ t \in Seq(Points)
        /\ Len(t) = Len(s) - m + 1
        /\ \A i \in 1..(Len(s) - m + 1) : t[i] = s[m + i - 1]
    BY <2>3, <2>5, <2>6, SubSeqProperties
  <2> HIDE DEF t
  <2>8. \A i \in 1..Len(t) : \E j \in 1..Len(s) : t[i] = s[j]
    <3> TAKE i \in 1..Len(t)
    <3>1. t[i] = s[m + i - 1] /\ m + i - 1 \in 1..Len(s)
      BY <2>3, <2>5, <2>7
    <3> QED BY <3>1
  <2>9. ASSUME NEW i \in 1..Len(s), s[i].time >= cutoff
        PROVE  \E j \in 1..Len(t) : t[j] = s[i]
    <3>1. m <= i
      BY <2>2, <2>9 DEF Young, young
    <3>2. i - m + 1 \in 1..Len(t) /\ t[i - m + 1] = s[i]
      <4>1. i - m + 1 \in 1..Len(t)
        BY <2>3, <2>5, <2>7, <3>1
      <4>2. m + (i - m + 1) - 1 = i
        BY <2>3, <2>5
      <4> QED BY <4>1, <4>2, <2>7
    <3> QED BY <3>2
  <2> QED BY <2>4, <2>7, <2>8, <2>9
<1> QED BY <1>1, <1>2

\* The invariant holds when the master starts.
LEMMA InitSeriesIInv == InitSeries => SeriesIInv
<1> SUFFICES ASSUME InitSeries PROVE SeriesIInv
  OBVIOUS
<1>1. series \in Seq(Points) /\ Len(series) = 0
  BY EmptySeq DEF InitSeries
<1> QED BY <1>1, TsdbAssumption DEF InitSeries, SeriesIInv, SeriesTypeOK, StampInv, RealInv, KeptInv, NoTime, Points

\* Storing a point keeps the invariant: the points cut off are older than the
\* retention of the handler's clock, which is not ahead of the clock.
LEMMA WriteIInv ==
    ASSUME SeriesIInv, NEW w \in Writers, Write(w)
    PROVE  SeriesIInv'
<1>1. PICK n \in 1..MaxWrites :
         LET p    == [time |-> stamp[w], value |-> n]
             data == Append(series, p)
         IN  /\ series' = IF Len(data) > Cap THEN Trim(data, stamp[w] - Retention) ELSE data
             /\ written' = written \cup {p}
  BY DEF Write
<1> DEFINE p      == [time |-> stamp[w], value |-> n]
           data   == Append(series, p)
           cutoff == stamp[w] - Retention
<1>2. /\ stamp[w] \in 0..MaxTime /\ stamp[w] <= clock
      /\ clock \in 0..MaxTime /\ clock' = clock
      /\ stamp' = [stamp EXCEPT ![w] = NoTime]
  BY DEF SeriesIInv, SeriesTypeOK, StampInv, Write
<1>3. p \in Points /\ cutoff \in Int /\ cutoff <= clock - Retention
  BY <1>2, TsdbAssumption DEF Points
<1>4. series \in Seq(Points) /\ written \subseteq Points
  BY DEF SeriesIInv, SeriesTypeOK
<1> HIDE DEF p, cutoff
<1>5. /\ data \in Seq(Points) /\ Len(data) = Len(series) + 1 /\ data[Len(series) + 1] = p
      /\ \A i \in 1..Len(series) : data[i] = series[i]
  BY <1>3, <1>4, AppendProperties
<1>6. series' = (IF Len(data) > Cap THEN Trim(data, cutoff) ELSE data) /\ written' = written \cup {p}
  BY <1>1 DEF p, cutoff
<1>7. Len(series) \in Nat
  BY <1>4, LenProperties
<1> HIDE DEF data
<1>8. /\ series' \in Seq(Points)
      /\ \A i \in 1..Len(series') : \E j \in 1..Len(data) : series'[i] = data[j]
      /\ \A i \in 1..Len(data) : data[i].time >= cutoff =>
             \E j \in 1..Len(series') : series'[j] = data[i]
  <2>1. CASE Len(data) > Cap
    BY <2>1, <1>3, <1>5, <1>6, TrimKeepsYoung
  <2>2. CASE ~(Len(data) > Cap)
    BY <2>2, <1>5, <1>6
  <2> QED BY <2>1, <2>2
<1>9. SeriesTypeOK'
  BY <1>2, <1>3, <1>4, <1>6, <1>8 DEF SeriesTypeOK, SeriesIInv, NoTime
<1>10. StampInv'
  BY <1>2 DEF SeriesIInv, StampInv, SeriesTypeOK
<1>11. RealInv'
  <2>1. \A j \in 1..Len(data) : data[j] \in written'
    BY <1>5, <1>6, <1>7 DEF SeriesIInv, RealInv
  <2> QED BY <1>8, <2>1 DEF RealInv
<1>12. KeptInv'
  <2> SUFFICES ASSUME NEW q \in written', q.time >= clock - Retention
               PROVE  \E i \in 1..Len(series') : series'[i] = q
    BY <1>2 DEF KeptInv
  <2>1. \E i \in 1..Len(data) : data[i] = q
    <3>1. CASE q = p
      BY <3>1, <1>5, <1>7
    <3>2. CASE q \in written
      BY <3>2, <1>5, <1>7 DEF SeriesIInv, KeptInv
    <3> QED BY <3>1, <3>2, <1>6
  <2>2. q.time >= cutoff
    <3>1. q.time \in Int
      BY <1>3, <1>4, <1>6 DEF Points
    <3> QED BY <3>1, <1>2, <1>3, TsdbAssumption
  <2> QED BY <2>1, <2>2, <1>8
<1> QED BY <1>9, <1>10, <1>11, <1>12 DEF SeriesIInv

\* And so does every other step.
LEMMA NextSeriesIInv == SeriesIInv /\ [NextSeries]_seriesVars => SeriesIInv'
<1> SUFFICES ASSUME SeriesIInv, [NextSeries]_seriesVars PROVE SeriesIInv'
  OBVIOUS
<1>1. CASE \E w \in Writers : ReadClock(w)
  <2>1. PICK w \in Writers : ReadClock(w)
    BY <1>1
  <2>2. SeriesTypeOK' /\ StampInv'
    BY <2>1 DEF SeriesIInv, SeriesTypeOK, StampInv, ReadClock, NoTime
  <2>3. RealInv' /\ KeptInv'
    BY <2>1 DEF SeriesIInv, RealInv, KeptInv, ReadClock
  <2> QED BY <2>2, <2>3 DEF SeriesIInv
<1>2. CASE \E w \in Writers : Write(w)
  BY <1>2, WriteIInv
<1>3. CASE NextSecond
  <2>1. clock \in 0..MaxTime /\ clock' = clock + 1 /\ clock' \in 0..MaxTime
    BY <1>3, TsdbAssumption DEF SeriesIInv, SeriesTypeOK, NextSecond
  <2>2. SeriesTypeOK' /\ RealInv'
    BY <1>3, <2>1 DEF SeriesIInv, SeriesTypeOK, RealInv, NextSecond
  <2>3. StampInv'
    BY <1>3, <2>1 DEF SeriesIInv, SeriesTypeOK, StampInv, NextSecond, NoTime
  <2>4. KeptInv'
    <3> SUFFICES ASSUME NEW q \in written, q.time >= clock' - Retention
                 PROVE  \E i \in 1..Len(series) : series[i] = q
      BY <1>3 DEF KeptInv, NextSecond
    <3>1. q.time >= clock - Retention
      BY <2>1, TsdbAssumption DEF SeriesIInv, SeriesTypeOK, Points
    <3> QED BY <3>1 DEF SeriesIInv, KeptInv
  <2> QED BY <2>2, <2>3, <2>4 DEF SeriesIInv
<1>4. CASE NewSeries
  <2>1. series' \in Seq(Points) /\ Len(series') = 0
    BY <1>4, EmptySeq DEF NewSeries
  <2> QED BY <1>4, <2>1 DEF SeriesIInv, SeriesTypeOK, StampInv, RealInv, KeptInv, NewSeries, NoTime
<1>5. CASE UNCHANGED seriesVars
  BY <1>5 DEF seriesVars, SeriesIInv, SeriesTypeOK, StampInv, RealInv, KeptInv
<1> QED BY <1>1, <1>2, <1>3, <1>4, <1>5 DEF NextSeries

\* The store has its types, whatever the handlers do.
THEOREM SeriesTypes == SeriesSpec => []SeriesTypeOK
<1>1. SeriesIInv => SeriesTypeOK
  BY DEF SeriesIInv
<1> QED BY <1>1, InitSeriesIInv, NextSeriesIInv, PTL DEF SeriesSpec

\* A query within the retention is answered with the points written in its
\* range, all of them and no others: of MemoryTSDB.Write and QueryRange.
THEOREM QueryIsComplete == SeriesSpec => []QueryComplete
<1>1. SeriesIInv => QueryComplete
  <2> SUFFICES ASSUME SeriesIInv,
                      NEW start \in (clock - Retention)..clock, NEW end \in start..clock
               PROVE  QueryRange(start, end) = {p \in written : p.time >= start /\ p.time <= end}
    BY DEF QueryComplete
  <2>1. clock \in Int /\ start \in Int
    BY TsdbAssumption DEF SeriesIInv, SeriesTypeOK
  <2>2. ASSUME NEW p \in written, p.time >= start, p.time <= end
        PROVE  p \in QueryRange(start, end)
    <3>1. p.time >= clock - Retention
      BY <2>1, <2>2, TsdbAssumption DEF SeriesIInv, SeriesTypeOK, Points
    <3>2. PICK i \in 1..Len(series) : series[i] = p
      BY <3>1 DEF SeriesIInv, KeptInv
    <3> QED BY <2>2, <3>2 DEF QueryRange
  <2>3. ASSUME NEW p \in QueryRange(start, end)
        PROVE  p \in written /\ p.time >= start /\ p.time <= end
    BY <2>3 DEF QueryRange, SeriesIInv, RealInv
  <2> QED BY <2>2, <2>3 DEF QueryRange
<1> QED BY <1>1, InitSeriesIInv, NextSeriesIInv, PTL DEF SeriesSpec

-----------------------------------------------------------------------------
(***************************************************************************)
(* The system catalogue                                                    *)
(***************************************************************************)

\* No identifier is used again, and what a reader has read of the systems does
\* not contradict what was deleted before it began.
CatalogIInv ==
    /\ CatalogTypeOK
    /\ system \cap deleted = {}
    /\ \A r \in Readers : read[r].sys \cap read[r].gone = {}
    /\ GoneStaysGone

\* What is put together shows nothing but the systems that were read.
LEMMA AssembleShows ==
    ASSUME NEW r, NEW ins, read[r].sys \cap read[r].gone = {}
    PROVE  LET v == Assemble(r, ins)
               named == v.sys \cup {m[2] : m \in v.mod} \cup {i[2] : i \in v.ins}
           IN  named \cap v.gone = {}
<1> DEFINE v == Assemble(r, ins)
<1>1. v.sys = read[r].sys /\ v.gone = read[r].gone
  BY DEF Assemble
<1>2. \A m \in v.mod : m[2] \in read[r].sys
  BY DEF Assemble
<1>3. \A i \in v.ins : i[2] \in read[r].sys
  BY DEF Assemble
<1> QED BY <1>1, <1>2, <1>3

\* The rows of a table are pairs of its keys and of the systems they name.
LEMMA RowsType ==
    ASSUME NEW K, NEW t \in [K -> Systems \cup {None}]
    PROVE  Rows(t) \subseteq K \X Systems
<1>1. \A k \in InUse(t) : k \in K /\ t[k] \in Systems
  BY DEF InUse
<1>2. \A k \in InUse(t) : <<k, t[k]>> \in K \X Systems
  BY <1>1
<1> QED BY <1>2 DEF Rows

\* Every handler and every read keeps the invariant.
LEMMA NextCatalogIInv == CatalogIInv /\ [NextCatalog]_catalogVars => CatalogIInv'
<1> SUFFICES ASSUME CatalogIInv, [NextCatalog]_catalogVars PROVE CatalogIInv'
  OBVIOUS
<1> USE DEF CatalogIInv
<1>1. CASE UNCHANGED catalogVars
  BY <1>1 DEF catalogVars, CatalogTypeOK, GoneStaysGone
<1>2. CASE Handlers
  <2>1. CatalogTypeOK' /\ system' \cap deleted' = {} /\ UNCHANGED <<read, view>>
    BY <1>2
    DEF Handlers, CatalogTypeOK, CreateSystem, DeleteSystem, AddModule, DeleteModule, Deploy, Remove
  <2> QED BY <2>1 DEF GoneStaysGone
<1>3. ASSUME NEW r \in Readers, ReadSystems(r) PROVE CatalogIInv'
  BY <1>3 DEF ReadSystems, CatalogTypeOK, GoneStaysGone
<1>4. ASSUME NEW r \in Readers, ReadModules(r) PROVE CatalogIInv'
  <2>1. Rows(module) \subseteq Modules \X Systems
    BY RowsType DEF CatalogTypeOK
  <2>2. \A q \in Readers : read'[q].sys = read[q].sys /\ read'[q].gone = read[q].gone
    BY <1>4 DEF ReadModules, CatalogTypeOK
  <2>3. CatalogTypeOK'
    <3> DEFINE Rowsets == SUBSET (Modules \X Systems)
               Reads == [at : {"idle", "modules", "instances"}, gone : SUBSET Systems,
                         sys : SUBSET Systems, mod : Rowsets]
    <3>1. Rows(module) \in Rowsets
      BY <2>1
    <3> HIDE DEF Rowsets
    <3>2. \A q \in Reads : [q EXCEPT !.at = "instances", !.mod = Rows(module)] \in Reads
      BY <3>1
    <3>3. read \in [Readers -> Reads]
      BY DEF CatalogTypeOK, Rowsets
    <3>4. read' = [read EXCEPT ![r] = [read[r] EXCEPT !.at = "instances", !.mod = Rows(module)]]
      BY <1>4 DEF ReadModules
    <3> HIDE DEF Reads
    <3>5. read' \in [Readers -> Reads]
      BY <3>2, <3>3, <3>4
    <3> QED BY <1>4, <3>5 DEF ReadModules, CatalogTypeOK, Reads, Rowsets
  <2>4. UNCHANGED <<system, deleted, view>>
    BY <1>4 DEF ReadModules
  <2> QED BY <2>2, <2>3, <2>4 DEF GoneStaysGone
<1>5. ASSUME NEW r \in Readers, ReadInstances(r) PROVE CatalogIInv'
  <2>1. Rows(instance) \subseteq Instances \X Systems
    BY RowsType DEF CatalogTypeOK
  <2>2. Assemble(r, Rows(instance)) \in [gone : SUBSET Systems, sys : SUBSET Systems,
                 mod : SUBSET (Modules \X Systems), ins : SUBSET (Instances \X Systems)]
    BY <2>1 DEF Assemble, CatalogTypeOK
  <2>3. CatalogTypeOK' /\ UNCHANGED <<system, deleted>>
    BY <1>5, <2>2 DEF ReadInstances, CatalogTypeOK, NoRead
  <2>4. \A q \in Readers : read'[q].sys \cap read'[q].gone = {}
    BY <1>5 DEF ReadInstances, CatalogTypeOK, NoRead
  <2>5. GoneStaysGone'
    BY <1>5, AssembleShows DEF ReadInstances, GoneStaysGone
  <2> QED BY <2>3, <2>4, <2>5
<1> QED BY <1>1, <1>2, <1>3, <1>4, <1>5 DEF NextCatalog, GetFullView

\* The catalogue starts with the invariant and keeps it.
LEMMA InductiveCatalog == CatalogSpec => []CatalogIInv
<1>1. InitCatalog => CatalogIInv
  BY DEF InitCatalog, CatalogIInv, CatalogTypeOK, GoneStaysGone, NoRead, NoView
<1> QED BY <1>1, NextCatalogIInv, PTL DEF CatalogSpec

\* A view asked for after a deletion was answered shows nothing of the system
\* (GetFullView, DeleteSystem).
THEOREM DeletedIsNotShown == CatalogSpec => []GoneStaysGone
<1>1. CatalogIInv => GoneStaysGone
  BY DEF CatalogIInv
<1> QED BY <1>1, InductiveCatalog, PTL

-----------------------------------------------------------------------------
(***************************************************************************)
(* The network counters                                                    *)
(***************************************************************************)

\* A sum of less than two words overflows at most once, and a difference of two
\* counters goes at most once below zero.
LEMMA WrapOnce ==
    ASSUME NEW n \in Int, -Word <= n, n < 2 * Word
    PROVE  Wrap(n) = IF n < 0 THEN n + Word ELSE IF n < Word THEN n ELSE n - Word
<1>1. Word \in Nat \ {0}
  BY CollectorAssumption
<1>2. n % Word = IF n < 0 THEN n + Word ELSE IF n < Word THEN n ELSE n - Word
  BY <1>1
<1> QED BY <1>2 DEF Wrap

\* The counter has moved on from the last reading by what was not reported yet,
\* and overflowed at most once, unless a card was removed.
NetIInv ==
    /\ NetTypeOK
    /\ reported.time <= uptime
    /\ last.time = Never => moved = 0 /\ reported.bytes = 0 /\ reported.time = 0 /\ cards = "all"
    /\ last.time # Never =>
          /\ first # Never /\ reported.time = last.time - first /\ last.time <= uptime
          /\ cards = "all" => /\ reported.bytes = moved - idle
                              /\ counter = last.bytes + idle \/ counter = last.bytes + idle - Word

\* A burst moves the counter on by its bytes, past its end at most once.
LEMMA MoveCounts ==
    ASSUME NetIInv, NEW n \in 1..MaxBurst, Move(n)
    PROVE  /\ counter' \in 0..(Word - 1)
           /\ counter' = counter + n \/ counter' = counter + n - Word
<1>1. Word \in Nat \ {0} /\ counter \in 0..(Word - 1) /\ n \in 0..(Word - 1)
  BY CollectorAssumption DEF NetIInv, NetTypeOK
<1>2. counter' = Wrap(counter + n)
  BY DEF Move
<1>3. counter + n \in Int /\ 0 <= counter + n /\ counter + n < 2 * Word
  BY <1>1
<1>4. Wrap(counter + n) = IF counter + n < Word THEN counter + n ELSE counter + n - Word
  BY <1>1, <1>3, WrapOnce
<1> QED BY <1>1, <1>2, <1>3, <1>4

\* A card that is removed leaves a counter, and a difference of two counters is one.
LEMMA CountersWrap ==
    ASSUME NEW a \in 0..(Word - 1), NEW b \in 0..(Word - 1)
    PROVE  Wrap(a - b) \in 0..(Word - 1)
<1>1. Word \in Nat \ {0}
  BY CollectorAssumption
<1>2. a - b \in Int /\ -Word <= a - b /\ a - b < Word
  BY <1>1
<1> QED BY <1>1, <1>2, WrapOnce

\* Every step of the counters keeps the invariant.
LEMMA NextNetIInv == NetIInv /\ [NextNet]_netVars => NetIInv'
<1> SUFFICES ASSUME NetIInv, [NextNet]_netVars PROVE NetIInv'
  OBVIOUS
<1> USE CollectorAssumption DEF NetIInv, NetTypeOK, Never
<1>1. CASE UNCHANGED netVars
  BY <1>1 DEF netVars
<1>2. ASSUME NEW n \in 1..MaxBurst, Move(n) PROVE NetIInv'
  <2>1. counter' \in 0..(Word - 1) /\ (counter' = counter + n \/ counter' = counter + n - Word)
    BY <1>2, MoveCounts
  <2>2. last.time # Never => last.bytes + idle + n < 2 * Word
    BY <1>2 DEF Move
  <2> QED BY <1>2, <2>1, <2>2 DEF Move
<1>3. CASE TimePasses
  BY <1>3 DEF TimePasses
<1>4. CASE GetStatus
  <2>1. Diff(counter, last.bytes) \in 0..(Word - 1)
    BY CountersWrap DEF Diff
  <2>2. last.time # Never /\ cards = "all" => Diff(counter, last.bytes) = idle
    BY WrapOnce DEF Diff
  <2>3. CASE last.time = Never
    BY <1>4, <2>3 DEF GetStatus
  <2>4. CASE last.time # Never
    BY <1>4, <2>1, <2>2, <2>4 DEF GetStatus
  <2> QED BY <2>3, <2>4
<1>5. ASSUME NEW n \in 1..(Word - 1), RemoveCard(n) PROVE NetIInv'
  <2>1. counter \in 0..(Word - 1) /\ n \in 0..(Word - 1)
    OBVIOUS
  <2>2. Wrap(counter - n) \in 0..(Word - 1)
    BY ONLY <2>1, CountersWrap
  <2>3. counter' \in 0..(Word - 1)
    BY ONLY <1>5, <2>2 DEF RemoveCard
  <2> QED BY <1>5, <2>3 DEF RemoveCard
<1> QED BY <1>1, <1>2, <1>3, <1>4, <1>5 DEF NextNet

\* The counters start with the invariant and keep it.
LEMMA InductiveNet == NetSpec => []NetIInv
<1>1. InitNet => NetIInv
  BY CollectorAssumption DEF InitNet, NetIInv, NetTypeOK, Never
<1> QED BY <1>1, NextNetIInv, PTL DEF NetSpec

\* The speeds reported account for every second, and for every byte until a card
\* is removed, for a counter of any width (GetStatus, unsigned subtraction).
THEOREM EveryByteCounts == NetSpec => []BytesAccounted
<1>1. NetIInv => BytesAccounted
  BY DEF NetIInv, BytesAccounted
<1> QED BY <1>1, InductiveNet, PTL

-----------------------------------------------------------------------------
(***************************************************************************)
(* The list of packages                                                    *)
(***************************************************************************)

\* The keys of the files that were found.
KeysOf(found) == {f.key : f \in found}

\* A package that was there throughout the walk is still to be visited or was
\* found, and what was found was there at some moment of it.
StoreIInv ==
    /\ StoreTypeOK
    /\ steady \subseteq Present
    /\ Walking =>
        /\ steady \subseteq walk.todo \cup KeysOf(walk.found)
        /\ Present \cup KeysOf(walk.found) \subseteq ever

\* What a visit adds to what was found.
VisitFinds(k) == IF k \in Present THEN walk.found \cup {[key |-> k, time |-> packages[k]]}
                                 ELSE walk.found

\* It is of a file that is there, or nothing.
LEMMA VisitAdds ==
    ASSUME NEW k, StoreIInv
    PROVE  /\ VisitFinds(k) \in SUBSET Found
           /\ KeysOf(VisitFinds(k)) = KeysOf(walk.found) \cup ({k} \cap Present)
<1>1. VisitFinds(k) \in SUBSET Found
  BY DEF VisitFinds, StoreIInv, StoreTypeOK, Found, Present, NoFile
<1>2. CASE k \in Present
  <2> DEFINE new == [key |-> k, time |-> packages[k]]
  <2>1. new.key = k /\ VisitFinds(k) = walk.found \cup {new}
    BY <1>2 DEF VisitFinds
  <2> HIDE DEF new
  <2> QED BY <1>1, <1>2, <2>1 DEF KeysOf
<1>3. CASE k \notin Present
  BY <1>1, <1>3 DEF VisitFinds
<1> QED BY <1>1, <1>2, <1>3

\* The list shows each package that was found and nothing else.
LEMMA GroupLists ==
    ASSUME NEW found \in SUBSET Found
    PROVE  Listed(Group(found)) = KeysOf(Grouped(found))
<1> DEFINE sound == Grouped(found)
           mine(n) == {f \in sound : f.key[1] = n}
           list == Group(found)
<1>1. sound \in SUBSET Found
  BY DEF Grouped
<1>2. /\ DOMAIN list = {f.key[1] : f \in sound}
      /\ \A n \in DOMAIN list : list[n].versions = {f.key[2] : f \in mine(n)}
  BY DEF Group
<1>3. \A f \in sound : f.key = <<f.key[1], f.key[2]>>
  BY <1>1 DEF Found, Packages
<1> HIDE DEF list, sound
<1>4. ASSUME NEW f \in sound PROVE f.key \in Listed(list)
  <2>1. f.key[1] \in DOMAIN list /\ f.key[2] \in list[f.key[1]].versions
    BY <1>2
  <2>2. <<f.key[1], f.key[2]>> \in Listed(list)
    BY <2>1 DEF Listed
  <2> QED BY <1>3, <2>2
<1>5. ASSUME NEW p \in Listed(list) PROVE p \in KeysOf(sound)
  <2>1. PICK n \in DOMAIN list : \E v \in list[n].versions : p = <<n, v>>
    BY <1>5 DEF Listed
  <2>2. PICK f \in mine(n) : p = <<n, f.key[2]>>
    BY <1>2, <2>1
  <2> QED BY <1>3, <2>2 DEF KeysOf
<1> QED BY <1>4, <1>5 DEF list, sound, KeysOf

\* A set of naturals that is bounded and not empty has a greatest element.
LEMMA GreatestExists ==
    ASSUME NEW m \in Nat, NEW S \in SUBSET (0..m), S # {}
    PROVE  Max(S) \in S
<1> DEFINE R == {m - x : x \in S}
<1>1. R \in SUBSET Nat /\ R # {}
  OBVIOUS
<1>2. PICK i \in R : \A j \in R : i <= j
  <2> HIDE DEF R
  <2> QED BY <1>1, LeastExists
<1>3. \E x \in S : \A y \in S : x >= y
  <2>1. PICK x \in S : i = m - x
    BY <1>2
  <2>2. ASSUME NEW y \in S PROVE x >= y
    <3>1. i <= m - y
      BY <1>2
    <3> QED BY <2>1, <3>1
  <2> QED BY <2>2
<1> QED BY <1>3 DEF Max

\* A service has versions, and was last uploaded when one of them was.
LEMMA GroupType ==
    ASSUME NEW found \in SUBSET Found
    PROVE  /\ DOMAIN Group(found) \subseteq Names
           /\ \A n \in DOMAIN Group(found) :
                Group(found)[n] \in [versions : SUBSET Versions, last : 0..MaxSaved]
<1> DEFINE sound == Grouped(found)
           mine(n) == {f \in sound : f.key[1] = n}
<1>1. sound \in SUBSET Found
  BY DEF Grouped
<1>2. /\ DOMAIN Group(found) = {f.key[1] : f \in sound}
      /\ \A n \in DOMAIN Group(found) :
           Group(found)[n] = [versions |-> {f.key[2] : f \in mine(n)},
                              last     |-> Max({f.time : f \in mine(n)})]
  BY DEF Group
<1> HIDE DEF sound
<1>3. \A f \in sound : f.key[1] \in Names /\ f.key[2] \in Versions /\ f.time \in 0..MaxSaved
  BY <1>1 DEF Found, Packages
<1>4. ASSUME NEW n \in DOMAIN Group(found)
      PROVE  Group(found)[n] \in [versions : SUBSET Versions, last : 0..MaxSaved]
  <2> DEFINE vs == {f.key[2] : f \in mine(n)}
             ts == {f.time : f \in mine(n)}
  <2>1. Group(found)[n] = [versions |-> vs, last |-> Max(ts)]
    BY <1>2
  <2>2. vs \in SUBSET Versions /\ ts \in SUBSET (0..MaxSaved) /\ ts # {}
    BY <1>2, <1>3
  <2> HIDE DEF vs, ts
  <2>3. Max(ts) \in 0..MaxSaved
    BY <2>2, StoreAssumption, GreatestExists
  <2> QED BY <2>1, <2>2, <2>3
<1> QED BY <1>2, <1>3, <1>4

\* Every step of the list and of the storage keeps the invariant.
LEMMA NextStoreIInv == StoreIInv /\ [NextStore]_storeVars => StoreIInv'
<1> SUFFICES ASSUME StoreIInv, [NextStore]_storeVars PROVE StoreIInv'
  OBVIOUS
<1> USE StoreAssumption DEF StoreIInv, StoreTypeOK, Present, Walking, NoFile
<1>1. CASE UNCHANGED storeVars
  BY <1>1 DEF storeVars
<1>2. CASE ListPackages
  BY <1>2 DEF ListPackages, KeysOf
<1>3. ASSUME NEW k \in Packages, Save(k) PROVE StoreIInv'
  BY <1>3 DEF Save
<1>4. ASSUME NEW k \in Packages, DeletePackage(k) PROVE StoreIInv'
  BY <1>4 DEF DeletePackage
<1>5. ASSUME NEW k \in Packages, Visit(k) PROVE StoreIInv'
  <2> DEFINE found == VisitFinds(k)
  <2>1. found \in SUBSET Found /\ KeysOf(found) = KeysOf(walk.found) \cup ({k} \cap Present)
    BY VisitAdds
  <2>2. UNCHANGED <<packages, time, steady, ever>> /\ k \in walk.todo
    BY <1>5 DEF Visit
  <2>3. walk' = [todo |-> walk.todo \ {k}, found |-> IF walk.todo \ {k} = {} THEN {} ELSE found]
    BY <1>5 DEF Visit, VisitFinds
  <2>4. answer' = Group(found) \/ answer' = answer
    BY <1>5 DEF Visit, VisitFinds
  <2> HIDE DEF found
  <2>5. DOMAIN answer' \subseteq Names
        /\ \A n \in DOMAIN answer' : answer'[n] \in [versions : SUBSET Versions, last : 0..MaxSaved]
    BY <2>1, <2>4, GroupType
  <2> QED BY <2>1, <2>2, <2>3, <2>5
<1> QED BY <1>1, <1>2, <1>3, <1>4, <1>5 DEF NextStore

\* The list starts with the invariant and keeps it.
LEMMA InductiveStore == StoreSpec => []StoreIInv
<1>1. InitStore => StoreIInv
  BY StoreAssumption
  DEF InitStore, StoreIInv, StoreTypeOK, Present, Walking, NoFile, NoAnswer, Found
<1> QED BY <1>1, NextStoreIInv, PTL DEF StoreSpec

\* Whatever is uploaded and deleted during the walk, the list shows the packages
\* that were there throughout it, and none that never was (ListFiles,
\* ListPackages).
THEOREM ListIsSound == StoreSpec => ListSound
<1>1. StoreIInv /\ [NextStore]_storeVars =>
        [Walking /\ walk'.todo = {} =>
           /\ {k \in steady : k[1] \notin Nested} \subseteq Listed(answer')
           /\ Listed(answer') \subseteq {k \in ever : k[1] \notin Nested}]_storeVars
  <2> SUFFICES ASSUME StoreIInv, NextStore, Walking, walk'.todo = {}
               PROVE  /\ {k \in steady : k[1] \notin Nested} \subseteq Listed(answer')
                      /\ Listed(answer') \subseteq {k \in ever : k[1] \notin Nested}
    OBVIOUS
  <2>1. PICK k \in Packages : Visit(k)
    BY DEF NextStore, ListPackages, Save, DeletePackage, Walking
  <2> DEFINE found == VisitFinds(k)
  <2>2. found \in SUBSET Found /\ KeysOf(found) = KeysOf(walk.found) \cup ({k} \cap Present)
    BY VisitAdds
  <2>3. walk.todo = {k} /\ answer' = Group(found)
    BY <2>1 DEF Visit, Walking, VisitFinds
  <2>4. steady \subseteq KeysOf(found) /\ KeysOf(found) \subseteq ever
    BY <2>2, <2>3 DEF StoreIInv, Walking
  <2>5. Listed(answer') = KeysOf(Grouped(found))
    BY <2>2, <2>3, GroupLists
  <2>6. KeysOf(Grouped(found)) = {k1 \in KeysOf(found) : k1[1] \notin Nested}
    BY DEF KeysOf, Grouped
  <2> QED BY <2>4, <2>5, <2>6
<1> QED BY <1>1, InductiveStore, PTL DEF StoreSpec, ListSound

-----------------------------------------------------------------------------
(***************************************************************************)
(* All the parts                                                           *)
(***************************************************************************)

\* Every variable of every part has its type, whatever the other parts do.
THEOREM RecordsTypeCorrect == AllSpec => []AllTypeOK
<1>1. AlertAssumption /\ ConfigAssumption
  BY RecordsAssumption DEF RecordsAssumption
<1>2. AllInit => /\ InitSeries /\ InitBackup /\ InitCatalog /\ InitStore /\ InitNet
                 /\ Init /\ InitProxy
  BY DEF AllInit
<1>3. [AllNext]_allVars =>
        /\ [NextSeries]_seriesVars /\ [NextBackup]_backupVars /\ [NextCatalog]_catalogVars
        /\ [NextStore]_storeVars /\ [NextNet]_netVars /\ [Next]_vars /\ [NextProxy]_proxyVars
  BY DEF AllNext, ButSeries, ButBackup, ButCatalog, ButStore, ButNet, ButAlerts, ButNacos, allVars
<1>4. AllSpec => /\ SeriesSpec /\ BackupSpec /\ CatalogSpec /\ StoreSpec /\ NetSpec
                 /\ Spec /\ ProxySpec
  BY <1>2, <1>3, PTL
     DEF AllSpec, SeriesSpec, BackupSpec, CatalogSpec, StoreSpec, NetSpec, Spec, ProxySpec
<1>5. SeriesSpec => []SeriesTypeOK
  BY SeriesTypes
<1>6. BackupSpec => []BackupTypeOK
  BY BackupTypeCorrect
<1>7. CatalogSpec => []CatalogTypeOK
  <2>1. CatalogIInv => CatalogTypeOK
    BY DEF CatalogIInv
  <2> QED BY <2>1, InductiveCatalog, PTL
<1>8. StoreSpec => []StoreTypeOK
  <2>1. StoreIInv => StoreTypeOK
    BY DEF StoreIInv
  <2> QED BY <2>1, InductiveStore, PTL
<1>9. NetSpec => []NetTypeOK
  <2>1. NetIInv => NetTypeOK
    BY DEF NetIInv
  <2> QED BY <2>1, InductiveNet, PTL
<1>10. Spec => []TypeOK
  <2>1. IInv => TypeOK
    BY DEF IInv
  <2> QED BY <1>1, <2>1, Inductive, PTL
<1>11. ProxySpec => []ProxyTypeOK
  BY <1>1, ProxyTypes
<1>12. SeriesTypeOK /\ BackupTypeOK /\ CatalogTypeOK /\ StoreTypeOK /\ NetTypeOK /\ TypeOK
         /\ ProxyTypeOK => AllTypeOK
  BY DEF AllTypeOK
<1> QED BY <1>4, <1>5, <1>6, <1>7, <1>8, <1>9, <1>10, <1>11, <1>12, PTL
=============================================================================
