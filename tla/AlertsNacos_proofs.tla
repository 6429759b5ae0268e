------------------------- MODULE AlertsNacos_proofs -------------------------
(***************************************************************************)
(* Proofs about the two parts that MCServices and MCRecords both look at.  *)
(* The alert engine: types, that the states in memory and the table of     *)
(* events agree, by which steps an event comes to stay open for good, and  *)
(* that an alert is only raised of a target that stayed wrong.  The Nacos  *)
(* proxy: types, and that a GET or a POST takes a token to the server that *)
(* issued it.                                                              *)
(***************************************************************************)
EXTENDS AlertManager, ConfigManager, SequenceTheorems, TLAPS

-----------------------------------------------------------------------------
(***************************************************************************)
(* The alert engine                                                        *)
(***************************************************************************)

Event == [key : Keys, status : {"firing", "resolved", "deleted"}]

\* A state is no older than the time its target has been seen wrong.
HeatInv == \A k \in Keys : states[k].event # -1 => heat[k] >= states[k].age

\* The inductive invariant.
IInv == TypeOK /\ StatesNameEvents /\ HeatInv

\* What every step does to the table: rows keep their key, and none opens again.
Keeps ==
    /\ events' \in Seq(Event) /\ Len(events') >= Len(events)
    /\ \A e \in 1..Len(events) :
          /\ events'[e].key = events[e].key
          /\ events'[e].status = "firing" => events[e].status = "firing"
          /\ events'[e].status = "resolved" => events[e].status \in {"resolved", "firing"}

\* The table, and what a state may be.
LEMMA Shapes ==
    ASSUME TypeOK
    PROVE  /\ events \in Seq(Event) /\ Len(events) \in Nat /\ DOMAIN events = 1..Len(events)
           /\ \A e \in 1..Len(events) : events[e] \in Event
           /\ \A k \in Keys : states[k] \in [age : 0..MaxAge, event : -1..Len(events)]
<1>1. events \in Seq(Event)
  BY DEF TypeOK, Event
<1> QED BY <1>1, LenProperties, ElementOfSeq DEF TypeOK

\* An engine that was just made has no states.
LEMMA InitIInv ==
    ASSUME AlertAssumption, Init
    PROVE  IInv
<1>1. events \in Seq(Event) /\ Len(events) = 0
  BY EmptySeq DEF Init
<1>2. Idle \in [at : {"idle", "rules", "snapshot", "apply"}, rules : SUBSET Rules,
                seen : SUBSET Targets, hot : SUBSET Keys, todo : SUBSET Keys]
  BY DEF Idle
<1>3. states \in [Keys -> [age : 0..MaxAge, event : -1..Len(events)]]
  BY <1>1 DEF Init, Absent, AlertAssumption
<1>4. heat \in [Keys -> -1..MaxAge]
  BY DEF Init, AlertAssumption
<1>5. TypeOK
  BY <1>1, <1>2, <1>3, <1>4 DEF Init, TypeOK, Event, AlertAssumption
<1>6. StatesNameEvents /\ HeatInv
  BY DEF Init, StatesNameEvents, HeatInv, Firing, Absent
<1> QED BY <1>5, <1>6 DEF IInv

\* Closing an event: the table is the same but for the status of that one.
LEMMA ResolveKeeps ==
    ASSUME TypeOK, NEW e \in 1..Len(events), Resolve(e)
    PROVE  /\ Keeps /\ Len(events') = Len(events) /\ events'[e].status # "firing"
           /\ \A d \in 1..Len(events) : d # e => events'[d] = events[d]
<1> DEFINE row == [events[e] EXCEPT !.status = IF @ = "firing" THEN "resolved" ELSE @]
<1>1. events \in Seq(Event) /\ events[e] \in Event
  BY Shapes
<1>2. row \in Event /\ row.key = events[e].key /\ row.status # "firing"
      /\ (row.status = "resolved" => events[e].status \in {"resolved", "firing"})
  BY <1>1 DEF Event
<1>3. events' = [events EXCEPT ![e] = row]
  BY DEF Resolve
<1> HIDE DEF row
<1>4. /\ events' \in Seq(Event) /\ Len(events') = Len(events)
      /\ \A d \in 1..Len(events) : events'[d] = IF d = e THEN row ELSE events[d]
  BY <1>1, <1>2, <1>3, ExceptSeq
<1>5. Len(events) \in Nat
  BY Shapes
<1> QED BY <1>2, <1>4, <1>5 DEF Keeps

\* Writing down an event: it is the last row.
LEMMA AppendKeeps ==
    ASSUME TypeOK, NEW k \in Keys, events' = Append(events, [key |-> k, status |-> "firing"])
    PROVE  /\ Keeps /\ Len(events') = Len(events) + 1
           /\ events'[Len(events) + 1] = [key |-> k, status |-> "firing"]
           /\ \A d \in 1..Len(events) : events'[d] = events[d]
<1> DEFINE row == [key |-> k, status |-> "firing"]
<1>1. events \in Seq(Event) /\ row \in Event /\ events' = Append(events, row)
  BY Shapes DEF Event
<1> HIDE DEF row
<1>2. /\ events' \in Seq(Event) /\ Len(events') = Len(events) + 1
      /\ events'[Len(events) + 1] = row /\ \A d \in 1..Len(events) : events'[d] = events[d]
  BY <1>1, AppendProperties
<1>3. Len(events) \in Nat
  BY Shapes
<1>4. Keeps
  BY <1>2, <1>3 DEF Keeps
<1> QED BY <1>2, <1>4 DEF row

\* A table that stays as it is.
LEMMA SameKeeps ==
    ASSUME TypeOK, UNCHANGED events
    PROVE  Keeps
  BY Shapes DEF Keeps

\* Events that are deleted stay in the table.
LEMMA DeleteKeeps ==
    ASSUME TypeOK, NEW S, DeleteEvents(S)
    PROVE  Keeps /\ Len(events') = Len(events)
<1> DEFINE row(e) == IF e \in S THEN [events[e] EXCEPT !.status = "deleted"] ELSE events[e]
<1>1. /\ Len(events) \in Nat /\ DOMAIN events = 1..Len(events)
      /\ \A e \in 1..Len(events) : events[e] \in Event
  BY Shapes
<1>2. \A e \in 1..Len(events) : /\ row(e) \in Event /\ row(e).key = events[e].key
                                /\ row(e).status \in {"deleted", events[e].status}
  BY <1>1 DEF Event
<1>3. events' = [e \in 1..Len(events) |-> row(e)]
  BY <1>1 DEF DeleteEvents
<1> HIDE DEF row
<1>4. events' \in [1..Len(events) -> Event] /\ DOMAIN events' = 1..Len(events)
  BY <1>2, <1>3
<1>5. events' \in Seq(Event)
  BY <1>1, <1>4, SeqDef
<1>6. Len(events') = Len(events)
  BY <1>1, <1>4, <1>5, LenProperties
<1> QED BY <1>1, <1>2, <1>3, <1>5, <1>6 DEF Keeps

\* While states stay or go, and the table keeps its rows, the two go on agreeing
\* if what is closed had no state that stays.
LEMMA Agree ==
    ASSUME IInv, Keeps,
           \A k \in Keys : states'[k].event > 0 =>
                /\ states'[k].event = states[k].event
                /\ events'[states[k].event].status # "resolved"
    PROVE  StatesNameEvents'
<1> SUFFICES ASSUME NEW k \in Keys, states'[k].event > 0
             PROVE  /\ events'[states'[k].event].key = k
                    /\ events'[states'[k].event].status # "resolved"
  BY DEF StatesNameEvents, Firing
<1>1. states'[k].event = states[k].event /\ events'[states[k].event].status # "resolved"
  OBVIOUS
<1>2. states[k].event \in 1..Len(events)
  BY <1>1, Shapes DEF IInv
<1>3. events[states[k].event].key = k
  BY <1>1 DEF IInv, StatesNameEvents, Firing
<1> QED BY <1>1, <1>2, <1>3 DEF Keeps

\* A pass at one rule and target.
LEMMA HandleIInv ==
    ASSUME AlertAssumption, IInv, NEW k \in Keys, HandleState(k)
    PROVE  IInv' /\ Keeps
<1>1. TypeOK /\ eval' \in [at : {"idle", "rules", "snapshot", "apply"}, rules : SUBSET Rules,
                           seen : SUBSET Targets, hot : SUBSET Keys, todo : SUBSET Keys]
  BY DEF IInv, TypeOK, HandleState
<1>2. /\ states[k] \in [age : 0..MaxAge, event : -1..Len(events)] /\ Len(events) \in Nat
      /\ heat[k] \in -1..MaxAge /\ MaxAge \in Nat
  BY <1>1, Shapes DEF TypeOK, AlertAssumption
<1>3. ASSUME Keeps, states' \in [Keys -> [age : 0..MaxAge, event : -1..Len(events')]],
             heat' \in [Keys -> -1..MaxAge]
      PROVE  TypeOK'
  BY <1>1, <1>3 DEF HandleState, TypeOK, Keeps, Event
<1>4. \A d \in Keys : states[d].event > 0 =>
         states[d].event \in 1..Len(events) /\ events[states[d].event].key = d
  BY <1>1, Shapes DEF IInv, StatesNameEvents, Firing
<1>5. CASE Trigger(k)
  <2>1. /\ heat' = [heat EXCEPT ![k] = IF @ = -1 THEN 0 ELSE @] /\ heat' \in [Keys -> -1..MaxAge]
        /\ heat'[k] >= 0 /\ heat'[k] >= heat[k] /\ \A d \in Keys : d # k => heat'[d] = heat[d]
    BY <1>1, <1>2, <1>5 DEF Trigger, TypeOK
  <2>2. CASE states[k] = Absent /\ UNCHANGED events
             /\ states' = [states EXCEPT ![k] = [age |-> 0, event |-> 0]]
    <3>1. Keeps
      BY <1>1, <2>2, SameKeeps
    <3>2. states' \in [Keys -> [age : 0..MaxAge, event : -1..Len(events')]]
      BY <1>1, <1>2, <2>2 DEF TypeOK
    <3>3. \A d \in Keys : states'[d] = IF d = k THEN [age |-> 0, event |-> 0] ELSE states[d]
      BY <1>1, <2>2 DEF TypeOK
    <3>4. HeatInv'
      BY <2>1, <3>3 DEF IInv, HeatInv
    <3>5. StatesNameEvents'
      BY <2>2, <3>3 DEF IInv, StatesNameEvents, Firing
    <3> QED BY <1>3, <2>1, <3>1, <3>2, <3>4, <3>5 DEF IInv
  <2>3. CASE Pending(k) /\ events' = Append(events, [key |-> k, status |-> "firing"])
             /\ states' = [states EXCEPT ![k].event = Len(events) + 1]
    <3>1. /\ Keeps /\ Len(events') = Len(events) + 1
          /\ events'[Len(events) + 1] = [key |-> k, status |-> "firing"]
          /\ \A d \in 1..Len(events) : events'[d] = events[d]
      BY <1>1, <2>3, AppendKeeps
    <3>2. states' \in [Keys -> [age : 0..MaxAge, event : -1..Len(events')]]
      <4> DEFINE named == [states[k] EXCEPT !.event = Len(events) + 1]
      <4>1. named \in [age : 0..MaxAge, event : -1..(Len(events) + 1)]
        BY <1>2
      <4>2. \A d \in Keys : states[d] \in [age : 0..MaxAge, event : -1..(Len(events) + 1)]
        BY <1>1, <1>2, Shapes
      <4>3. states' = [states EXCEPT ![k] = named]
        BY <2>3
      <4> HIDE DEF named
      <4> QED BY <1>1, <3>1, <4>1, <4>2, <4>3 DEF TypeOK
    <3>3. /\ states'[k].event = Len(events) + 1 /\ states'[k].age = states[k].age
          /\ \A d \in Keys : d # k => states'[d] = states[d]
      BY <1>1, <1>2, <2>3 DEF TypeOK
    <3>4. HeatInv'
      BY <1>2, <2>1, <2>3, <3>3 DEF IInv, HeatInv, Pending
    <3>5. StatesNameEvents'
      <4> SUFFICES ASSUME NEW d \in Keys, states'[d].event > 0
                   PROVE  /\ events'[states'[d].event].key = d
                          /\ events'[states'[d].event].status # "resolved"
        BY DEF StatesNameEvents, Firing
      <4>1. CASE d = k
        BY <3>1, <3>3, <4>1
      <4>2. CASE d # k
        BY <1>4, <3>1, <3>3, <4>2 DEF IInv, StatesNameEvents, Firing
      <4> QED BY <4>1, <4>2
    <3> QED BY <1>3, <2>1, <3>1, <3>2, <3>4, <3>5 DEF IInv
  <2>4. CASE UNCHANGED <<states, events>>
    <3>1. Keeps
      BY <1>1, <2>4, SameKeeps
    <3>2. TypeOK'
      BY <1>1, <1>3, <2>1, <2>4, <3>1 DEF TypeOK
    <3>3. HeatInv'
      BY <1>1, <1>2, <2>1, <2>4 DEF IInv, HeatInv
    <3>4. StatesNameEvents'
      BY <2>4 DEF IInv, StatesNameEvents, Firing
    <3> QED BY <3>1, <3>2, <3>3, <3>4 DEF IInv
  <2> QED BY <1>5, <2>2, <2>3, <2>4 DEF Trigger
<1>6. CASE Recover(k)
  <2>1. /\ states' = [states EXCEPT ![k] = Absent] /\ heat' = [heat EXCEPT ![k] = -1]
        /\ heat' \in [Keys -> -1..MaxAge]
    BY <1>1, <1>2, <1>6 DEF Recover, TypeOK
  <2>2. \A d \in Keys : /\ d # k => states'[d] = states[d] /\ heat'[d] = heat[d]
                        /\ d = k => states'[d] = Absent
    BY <1>1, <2>1 DEF TypeOK
  <2>3. HeatInv'
    BY <2>2 DEF IInv, HeatInv, Absent
  <2>4. CASE Firing(k)
    <3>1. Resolve(states[k].event) /\ states[k].event \in 1..Len(events)
      BY <1>4, <1>6, <2>4 DEF Recover, Firing
    <3>2. /\ Keeps /\ Len(events') = Len(events)
          /\ \A d \in 1..Len(events) : d # states[k].event => events'[d] = events[d]
      BY <1>1, <3>1, ResolveKeeps
    <3>3. TypeOK'
      BY <1>1, <1>2, <1>3, <2>1, <3>2 DEF TypeOK, Absent
    <3>4. ASSUME NEW d \in Keys, states'[d].event > 0
          PROVE  /\ states'[d].event = states[d].event
                 /\ events'[states[d].event].status # "resolved"
      <4>1. d # k /\ states'[d] = states[d]
        BY <2>2, <3>4 DEF Absent
      <4>2. states[d].event # states[k].event
        BY <1>4, <2>4, <3>4, <4>1 DEF Firing
      <4> QED BY <1>4, <3>2, <3>4, <4>1, <4>2 DEF IInv, StatesNameEvents, Firing
    <3>5. StatesNameEvents'
      BY <3>2, <3>4, Agree
    <3> QED BY <2>3, <3>2, <3>3, <3>5 DEF IInv
  <2>5. CASE ~Firing(k)
    <3>1. UNCHANGED events /\ Keeps
      BY <1>1, <1>6, <2>5, SameKeeps DEF Recover
    <3>2. TypeOK'
      <4>1. Absent \in [age : 0..MaxAge, event : -1..Len(events)]
        BY <1>2 DEF Absent
      <4>2. states \in [Keys -> [age : 0..MaxAge, event : -1..Len(events)]]
        BY <1>1 DEF TypeOK
      <4>3. states' \in [Keys -> [age : 0..MaxAge, event : -1..Len(events)]]
        BY <2>1, <4>1, <4>2
      <4> QED BY <1>3, <2>1, <3>1, <4>3
    <3>3. StatesNameEvents'
      BY <2>2, <3>1 DEF IInv, StatesNameEvents, Firing, Absent
    <3> QED BY <2>3, <3>1, <3>2, <3>3 DEF IInv
  <2> QED BY <2>4, <2>5
<1> QED BY <1>5, <1>6 DEF HandleState

\* A step that leaves states, ages and table alone.
LEMMA AsideIInv ==
    ASSUME IInv, TypeOK', UNCHANGED <<states, events, heat>>
    PROVE  IInv' /\ Keeps
<1>1. StatesNameEvents' /\ HeatInv'
  BY DEF IInv, StatesNameEvents, HeatInv, Firing
<1> QED BY <1>1, SameKeeps DEF IInv

\* Time: an age and the heat above it grow alike.
LEMMA TickIInv ==
    ASSUME AlertAssumption, IInv, Tick
    PROVE  IInv' /\ Keeps /\ \A k \in Keys : states'[k].event = states[k].event
<1>1. TypeOK /\ MaxAge \in Nat
  BY DEF IInv, AlertAssumption
<1>2. ASSUME NEW k \in Keys
      PROVE  /\ states'[k] \in [age : 0..MaxAge, event : -1..Len(events)]
             /\ heat'[k] \in -1..MaxAge
             /\ states'[k].event = states[k].event
             /\ states[k].event # -1 => heat'[k] >= states'[k].age
  <2>1. states[k] \in [age : 0..MaxAge, event : -1..Len(events)] /\ heat[k] \in -1..MaxAge
    BY <1>1 DEF TypeOK
  <2>2. /\ states'[k] = IF states[k] = Absent THEN Absent ELSE [states[k] EXCEPT !.age = Older(@)]
        /\ heat'[k] = IF heat[k] = -1 THEN -1 ELSE Older(heat[k])
    BY DEF Tick, Age
  <2>3. states[k].event # -1 => heat[k] >= states[k].age
    BY DEF IInv, HeatInv
  <2>4. CASE states[k] = Absent
    BY <1>1, <2>1, <2>2, <2>4 DEF Absent, Older
  <2>5. CASE states[k] # Absent
    <3>1. /\ states'[k].age = Older(states[k].age) /\ states'[k].event = states[k].event
          /\ Older(states[k].age) \in 0..MaxAge
          /\ states'[k] \in [age : 0..MaxAge, event : -1..Len(events)]
      BY <1>1, <2>1, <2>2, <2>5 DEF Older
    <3>2. heat'[k] \in -1..MaxAge
      BY <1>1, <2>1, <2>2 DEF Older
    <3>3. ASSUME states[k].event # -1 PROVE heat'[k] >= states'[k].age
      <4>1. /\ heat[k] >= states[k].age /\ heat[k] # -1
            /\ heat[k] \in Int /\ states[k].age \in Nat /\ MaxAge \in Nat
        BY <1>1, <2>1, <2>3, <3>3
      <4> QED BY <2>2, <3>1, <4>1 DEF Older
    <3> QED BY <3>1, <3>2, <3>3
  <2> QED BY <2>4, <2>5
<1>3. /\ states' = [k \in Keys |-> states'[k]] /\ heat' = [k \in Keys |-> heat'[k]]
      /\ UNCHANGED <<rules, dropped, present, hot, events, eval, turns>>
  BY DEF Tick, Age
<1>4. TypeOK'
  BY <1>1, <1>2, <1>3 DEF TypeOK
<1>5. HeatInv'
  BY <1>2 DEF HeatInv
<1>6. StatesNameEvents'
  BY <1>2, <1>3 DEF IInv, StatesNameEvents, Firing
<1> QED BY <1>1, <1>2, <1>3, <1>4, <1>5, <1>6, SameKeeps DEF IInv

\* The operator, and a deletion of events: no state is touched.
LEMMA OperatorIInv ==
    ASSUME IInv, \/ \E r \in Rules : AddRule(r) \/ DeleteRule(r)
                 \/ \E S : DeleteEvents(S)
    PROVE  IInv' /\ Keeps /\ UNCHANGED states
<1>1. TypeOK
  BY DEF IInv
<1>2. CASE \E r \in Rules : AddRule(r) \/ DeleteRule(r)
  <2>1. TypeOK'
    BY <1>1, <1>2 DEF AddRule, DeleteRule, TypeOK
  <2>2. UNCHANGED <<states, events, heat>>
    BY <1>2 DEF AddRule, DeleteRule
  <2> QED BY <2>1, <2>2, AsideIInv
<1>3. ASSUME NEW S, DeleteEvents(S) PROVE IInv' /\ Keeps /\ UNCHANGED states
  <2>1. Keeps /\ Len(events') = Len(events)
    BY <1>1, <1>3, DeleteKeeps
  <2>2. UNCHANGED <<rules, dropped, present, hot, states, eval, turns, heat>>
    BY <1>3 DEF DeleteEvents
  <2>3. TypeOK'
    BY <1>1, <2>1, <2>2 DEF TypeOK, Keeps, Event
  <2>4. ASSUME NEW k \in Keys, states'[k].event > 0
        PROVE  /\ states'[k].event = states[k].event
               /\ events'[states[k].event].status # "resolved"
    <3>1. states[k].event \in 1..Len(events) /\ events[states[k].event].status # "resolved"
      BY <1>1, <2>2, <2>4, Shapes DEF IInv, StatesNameEvents, Firing
    <3>2. events'[states[k].event].status # "resolved"
      BY <1>3, <3>1, Shapes, <1>1 DEF DeleteEvents, Event
    <3> QED BY <2>2, <3>2
  <2>5. StatesNameEvents'
    BY <2>1, <2>4, Agree
  <2>6. HeatInv'
    BY <2>2 DEF IInv, HeatInv
  <2> QED BY <2>1, <2>2, <2>3, <2>5, <2>6 DEF IInv
<1> QED BY <1>2, <1>3

\* The stations of a pass but for the handling itself, and the world.
LEMMA WorldIInv ==
    ASSUME AlertAssumption, IInv,
           \/ ReadRules \/ Snapshot \/ Begin \/ End
           \/ \E k \in Keys : Flip(k)
           \/ \E t \in Targets : ComeOrGo(t)
    PROVE  IInv' /\ Keeps /\ UNCHANGED <<states, events>>
<1>1. TypeOK
  BY DEF IInv
<1>2. UNCHANGED <<states, events, heat>>
  BY DEF ReadRules, Snapshot, Begin, End, Flip, ComeOrGo
<1>3. eval' \in [at : {"idle", "rules", "snapshot", "apply"}, rules : SUBSET Rules,
                 seen : SUBSET Targets, hot : SUBSET Keys, todo : SUBSET Keys]
  <2>1. CASE ReadRules
    BY <1>1, <2>1 DEF ReadRules, TypeOK
  <2>2. CASE Snapshot
    BY <1>1, <2>2 DEF Snapshot, TypeOK
  <2>3. CASE Begin
    <3>1. eval.rules \X eval.seen \subseteq Keys
      BY <1>1 DEF TypeOK, Keys
    <3> QED BY <1>1, <2>3, <3>1 DEF Begin, TypeOK
  <2>4. CASE End
    BY <2>4 DEF End, Idle
  <2>5. CASE (\E k \in Keys : Flip(k)) \/ (\E t \in Targets : ComeOrGo(t))
    BY <1>1, <2>5 DEF Flip, ComeOrGo, TypeOK
  <2> QED BY <2>1, <2>2, <2>3, <2>4, <2>5
<1>4. turns' \in 0..MaxTurns
  BY <1>1 DEF ReadRules, Snapshot, Begin, End, Flip, ComeOrGo, Turn, TypeOK, AlertAssumption
<1>5. UNCHANGED <<rules, dropped>> /\ present' \subseteq Targets /\ hot' \subseteq Keys
  BY <1>1 DEF ReadRules, Snapshot, Begin, End, Flip, ComeOrGo, TypeOK
<1>6. TypeOK'
  BY <1>1, <1>2, <1>3, <1>4, <1>5 DEF TypeOK
<1> QED BY <1>2, <1>6, AsideIInv

\* A restart forgets every state.
LEMMA RestartIInv ==
    ASSUME AlertAssumption, IInv, Restart
    PROVE  IInv' /\ Keeps
<1>1. TypeOK /\ Keeps
  BY SameKeeps DEF IInv, Restart, Forget
<1>2. /\ \A k \in Keys : states'[k] = Absent
      /\ UNCHANGED <<rules, dropped, present, hot, events, heat>> /\ eval' = Idle
  BY DEF Restart, Forget
<1>3. Idle \in [at : {"idle", "rules", "snapshot", "apply"}, rules : SUBSET Rules,
                seen : SUBSET Targets, hot : SUBSET Keys, todo : SUBSET Keys]
  BY DEF Idle
<1>4. states' \in [Keys -> [age : 0..MaxAge, event : -1..Len(events)]]
  BY <1>1, Shapes DEF Restart, Forget, Absent, AlertAssumption
<1>5. turns' \in 0..MaxTurns
  BY <1>1 DEF Restart, Forget, Turn, TypeOK, AlertAssumption
<1>6. TypeOK'
  BY <1>1, <1>2, <1>3, <1>4, <1>5 DEF TypeOK
<1>7. StatesNameEvents' /\ HeatInv'
  BY <1>2 DEF StatesNameEvents, HeatInv, Firing, Absent
<1> QED BY <1>1, <1>6, <1>7 DEF IInv

\* Every step of the engine keeps the invariant, and the rows of the table.
LEMMA NextIInv ==
    ASSUME AlertAssumption, IInv, [Next]_vars
    PROVE  IInv' /\ Keeps
<1>1. CASE UNCHANGED vars
  <2>1. TypeOK' /\ UNCHANGED <<states, events, heat>>
    BY <1>1 DEF vars, IInv, TypeOK
  <2> QED BY <2>1, AsideIInv
<1>2. CASE \E k \in Keys : HandleState(k)
  BY <1>2, HandleIInv
<1>3. CASE \/ \E r \in Rules : AddRule(r) \/ DeleteRule(r)
           \/ \E S : DeleteEvents(S)
  BY <1>3, OperatorIInv
<1>4. CASE \/ ReadRules \/ Snapshot \/ Begin \/ End
           \/ \E k \in Keys : Flip(k)
           \/ \E t \in Targets : ComeOrGo(t)
  BY <1>4, WorldIInv
<1>5. CASE Tick
  BY <1>5, TickIInv
<1>6. CASE Restart
  BY <1>6, RestartIInv
<1> QED BY <1>1, <1>2, <1>3, <1>4, <1>5, <1>6 DEF Next, Evaluate

\* The invariant of every state.
LEMMA Inductive ==
    ASSUME AlertAssumption
    PROVE  Spec => []IInv
<1>1. Init => IInv
  BY InitIInv
<1>2. IInv /\ [Next]_vars => IInv'
  BY NextIInv
<1> QED BY <1>1, <1>2, PTL DEF Spec

\* A state that fires names an event of its own rule and target that is not
\* closed: of handleState, triggerAlert and resolveAlert.
THEOREM MemoryMatchesTable ==
    ASSUME AlertAssumption
    PROVE  Spec => []StatesNameEvents
<1>1. IInv => StatesNameEvents
  BY DEF IInv
<1> QED BY <1>1, Inductive, PTL

\* What a pass has yet to apply is of rules and targets it has read.
PassInv ==
    /\ eval.todo \subseteq eval.rules \X eval.seen
    /\ eval.at # "apply" => eval.todo = {}

LEMMA InductiveTodo ==
    ASSUME AlertAssumption
    PROVE  Spec => []PassInv
<1>1. Init => PassInv
  BY DEF Init, Idle, PassInv
<1>2. ASSUME PassInv, IInv, [Next]_vars PROVE PassInv'
  <2>0. eval \in [at : {"idle", "rules", "snapshot", "apply"}, rules : SUBSET Rules,
                  seen : SUBSET Targets, hot : SUBSET Keys, todo : SUBSET Keys]
    BY <1>2 DEF IInv, TypeOK
  <2>1. CASE \E k \in Keys : HandleState(k)
    <3>1. PICK k \in Keys : HandleState(k)
      BY <2>1
    <3>2. /\ eval'.todo = eval.todo \ {k} /\ eval'.rules = eval.rules
          /\ eval'.seen = eval.seen /\ eval'.at = "apply"
      BY <2>0, <3>1 DEF HandleState
    <3> QED BY <1>2, <3>2 DEF PassInv
  <2>2. CASE ReadRules \/ Snapshot
    <3>1. eval.at # "apply" /\ eval'.todo = eval.todo
      BY <2>0, <2>2 DEF ReadRules, Snapshot
    <3> QED BY <1>2, <3>1 DEF PassInv
  <2>3. CASE Begin
    <3>1. /\ eval'.todo = eval.rules \X eval.seen /\ eval'.rules = eval.rules
          /\ eval'.seen = eval.seen /\ eval'.at = "apply"
      BY <2>0, <2>3 DEF Begin
    <3> QED BY <3>1 DEF PassInv
  <2>4. CASE End \/ Restart
    BY <2>4 DEF End, Restart, Forget, Idle, PassInv
  <2>5. CASE UNCHANGED eval
    BY <1>2, <2>5 DEF PassInv
  <2>6. CASE \/ \E r \in Rules : AddRule(r) \/ DeleteRule(r)
             \/ \E S : DeleteEvents(S)
             \/ Tick
             \/ \E k \in Keys : Flip(k)
             \/ \E t \in Targets : ComeOrGo(t)
    BY <2>5, <2>6 DEF AddRule, DeleteRule, DeleteEvents, Tick, Age, Flip, ComeOrGo
  <2> QED BY <1>2, <2>1, <2>2, <2>3, <2>4, <2>5, <2>6 DEF Next, Evaluate, vars
<1> QED BY <1>1, <1>2, Inductive, PTL DEF Spec

\* A pass leaves every event that could be closed so, and the one it raises of a
\* rule and a target that are still there.
LEMMA HandleClosable ==
    ASSUME AlertAssumption, IInv, PassInv, NEW d \in Keys, HandleState(d),
           NEW e \in 1..Len(events'), e \in 1..Len(events) => Closable(e), ~Closable(e)'
    PROVE  LET k == events'[e].key
           IN  k[1] \in eval.rules \ rules \/ k[2] \in eval.seen \ present
<1> DEFINE k == events'[e].key
<1>1. TypeOK /\ Keeps /\ IInv' /\ Len(events) \in Nat /\ Len(events') \in Nat
  BY HandleIInv, Shapes DEF IInv, Keeps
<1>2. /\ events'[e].status = "firing" /\ UNCHANGED <<rules, present>>
      /\ ~(k[1] \in rules /\ k[2] \in present /\ states'[k].event = e)
  BY DEF Closable, HandleState
<1>3. d[1] \in eval.rules /\ d[2] \in eval.seen
  BY DEF HandleState, PassInv
<1>4. \A c \in Keys : c # d => states'[c] = states[c]
  BY <1>1 DEF HandleState, Trigger, Recover, TypeOK
<1>5. CASE e \in 1..Len(events)
  <2>1. /\ k = events[e].key /\ k \in Keys /\ states[k].event = e /\ events[e].status = "firing"
        /\ k[1] \in rules /\ k[2] \in present
    BY <1>1, <1>2, <1>5, Shapes DEF Keeps, Closable, Event
  <2> HIDE DEF k
  <2>2. d = k /\ states'[k].event # e
    BY <1>2, <1>4, <2>1
  <2>3. CASE Trigger(k)
    <3>1. states[k].event # -1 /\ states[k].event # 0
      BY <1>1, <1>5, <2>1
    <3>2. UNCHANGED states
      BY <2>3, <3>1 DEF Trigger, Pending, Absent
    <3> QED BY <2>1, <2>2, <3>2
  <2>4. CASE Recover(k)
    <3>1. Resolve(e)
      BY <1>5, <1>1, <2>1, <2>4 DEF Recover, Firing
    <3> QED BY <1>1, <1>2, <1>5, <3>1, ResolveKeeps
  <2> QED BY <2>2, <2>3, <2>4 DEF HandleState
<1>6. CASE e \notin 1..Len(events)
  <2>1. CASE Recover(d)
    <3>1. CASE Firing(d)
      <4>1. Resolve(states[d].event) /\ states[d].event \in 1..Len(events)
        BY <1>1, <2>1, <3>1, Shapes DEF Recover, Firing
      <4> QED BY <1>1, <1>6, <4>1, ResolveKeeps
    <3>2. CASE ~Firing(d)
      BY <1>6, <2>1, <3>2 DEF Recover
    <3> QED BY <3>1, <3>2
  <2>2. CASE Trigger(d)
    <3>1. CASE UNCHANGED events
      BY <1>6, <3>1
    <3>2. CASE /\ events' = Append(events, [key |-> d, status |-> "firing"])
               /\ states' = [states EXCEPT ![d].event = Len(events) + 1]
      <4>1. Len(events') = Len(events) + 1 /\ events'[Len(events) + 1] = [key |-> d, status |-> "firing"]
        BY <1>1, <3>2, AppendKeeps
      <4>2. e = Len(events) + 1
        BY <1>1, <1>6, <4>1
      <4>3. k = d
        BY <4>1, <4>2
      <4>4. states'[d].event = e
        BY <1>1, <3>2, <4>2 DEF TypeOK
      <4> QED BY <1>2, <1>3, <4>3, <4>4
    <3> QED BY <2>2, <3>1, <3>2 DEF Trigger
  <2> QED BY <2>1, <2>2 DEF HandleState
<1> QED BY <1>5, <1>6

\* An open event that a pass can close stays so, and a new one is so, but for the
\* four ways the property names: of handleState, which closes an event before it
\* drops its state, and marks the state of the event it writes.
THEOREM NoneForgotten ==
    ASSUME AlertAssumption
    PROVE  Spec => NeverForgotten
<1> DEFINE A == \A e \in DOMAIN events' :
          (e \in DOMAIN events => Closable(e)) /\ ~Closable(e)' =>
              LET k == events'[e].key
              IN  \/ Restart
                  \/ k[1] \in rules \ rules'
                  \/ k[2] \in present \ present'
                  \/ k[1] \in eval.rules \ rules
                  \/ k[2] \in eval.seen \ present
<1>1. ASSUME IInv, PassInv, [Next]_vars PROVE A
  <2>0. TypeOK /\ Keeps /\ IInv'
    BY <1>1, NextIInv DEF IInv
  <2>1. /\ DOMAIN events = 1..Len(events) /\ Len(events) \in Nat
        /\ DOMAIN events' = 1..Len(events')
    BY <2>0, Shapes, LenProperties DEF Keeps
  <2>2. ASSUME NEW d \in Keys, HandleState(d) PROVE A
    BY <1>1, <2>1, <2>2, HandleClosable
  <2>3. CASE Restart
    BY <2>3
  <2>4. ASSUME Len(events') = Len(events),
               \A k \in Keys : states'[k].event = states[k].event
        PROVE  A
    <3> SUFFICES ASSUME NEW e \in 1..Len(events), Closable(e), ~Closable(e)'
                 PROVE  \/ events'[e].key[1] \in rules \ rules'
                        \/ events'[e].key[2] \in present \ present'
      BY <2>1, <2>4
    <3>1. events'[e].key = events[e].key /\ events[e].key \in Keys
          /\ (events'[e].status = "firing" => events[e].status = "firing")
      BY <2>0, Shapes DEF Keeps, Event
    <3> QED BY <2>4, <3>1 DEF Closable
  <2>5. CASE UNCHANGED <<states, events>>
    BY <2>4, <2>5
  <2>6. CASE Tick
    BY <1>1, <2>4, <2>6, TickIInv DEF Tick, Age
  <2>7. ASSUME NEW S, DeleteEvents(S) PROVE A
    BY <2>0, <2>4, <2>7, DeleteKeeps DEF DeleteEvents
  <2>8. CASE \E r \in Rules : AddRule(r) \/ DeleteRule(r)
    BY <2>5, <2>8 DEF AddRule, DeleteRule
  <2>9. CASE \/ ReadRules \/ Snapshot \/ Begin \/ End
             \/ \E d \in Keys : Flip(d)
             \/ \E t \in Targets : ComeOrGo(t)
    BY <1>1, <2>5, <2>9, WorldIInv
  <2> HIDE DEF A
  <2> QED BY <1>1, <2>2, <2>3, <2>5, <2>6, <2>7, <2>8, <2>9 DEF Next, Evaluate, vars
<1> QED BY <1>1, Inductive, InductiveTodo, PTL DEF Spec, NeverForgotten

\* An alert is raised of a target that every pass has found wrong for the
\* duration of the rule: of handleState and FirstTriggerTime.
THEOREM NothingHasty ==
    ASSUME AlertAssumption
    PROVE  Spec => Debounced
<1> DEFINE A == Len(events') > Len(events) =>
                   LET k == events'[Len(events')].key IN heat[k] >= Duration[k[1]]
<1>1. ASSUME IInv, [Next]_vars PROVE A
  <2>0. TypeOK /\ Len(events) \in Nat
    BY <1>1, Shapes DEF IInv
  <2>1. CASE Len(events') = Len(events)
    BY <2>0, <2>1
  <2>2. ASSUME NEW k \in Keys, HandleState(k) PROVE A
    <3>1. CASE Recover(k)
      <4>1. CASE Firing(k)
        <5>1. Resolve(states[k].event) /\ states[k].event \in 1..Len(events)
          BY <2>0, <3>1, <4>1, Shapes DEF Recover, Firing
        <5> QED BY <2>0, <2>1, <5>1, ResolveKeeps
      <4>2. CASE ~Firing(k)
        BY <2>1, <3>1, <4>2 DEF Recover
      <4> QED BY <4>1, <4>2
    <3>2. CASE Trigger(k)
      <4>1. CASE UNCHANGED events
        BY <2>1, <4>1
      <4>2. CASE /\ Pending(k) /\ states[k].age >= Duration[k[1]]
                 /\ events' = Append(events, [key |-> k, status |-> "firing"])
        <5>1. Len(events') = Len(events) + 1 /\ events'[Len(events')].key = k
          BY <2>0, <4>2, AppendKeeps
        <5>2. heat[k] >= states[k].age
          BY <1>1, <4>2 DEF IInv, HeatInv, Pending
        <5>3. /\ heat[k] \in Int /\ states[k].age \in Int /\ Duration[k[1]] \in Int
          BY <2>0 DEF TypeOK, AlertAssumption, Keys
        <5> QED BY <4>2, <5>1, <5>2, <5>3
      <4> QED BY <3>2, <4>1, <4>2 DEF Trigger
    <3> QED BY <2>2, <3>1, <3>2 DEF HandleState
  <2>3. CASE \E S : DeleteEvents(S)
    BY <2>0, <2>1, <2>3, DeleteKeeps
  <2>4. CASE UNCHANGED events
    BY <2>1, <2>4
  <2>5. CASE Tick \/ Restart
    BY <2>4, <2>5 DEF Tick, Age, Restart, Forget
  <2>6. CASE \E r \in Rules : AddRule(r) \/ DeleteRule(r)
    BY <2>4, <2>6 DEF AddRule, DeleteRule
  <2>7. CASE \/ ReadRules \/ Snapshot \/ Begin \/ End
             \/ \E d \in Keys : Flip(d)
             \/ \E t \in Targets : ComeOrGo(t)
    BY <1>1, <2>4, <2>7, WorldIInv
  <2> HIDE DEF A
  <2> QED BY <1>1, <2>2, <2>3, <2>4, <2>5, <2>6, <2>7 DEF Next, Evaluate, vars
<1> QED BY <1>1, Inductive, PTL DEF Spec, Debounced

-----------------------------------------------------------------------------
(***************************************************************************)
(* The Nacos proxy                                                         *)
(***************************************************************************)

\* What a call can be.
CallSet == [method : {"GET", "POST", "DELETE"},
             at : {"idle", "login", "settings", "dial", "store", "base", "token",
                   "send", "forget", "ok", "failed"},
             cfg : 0..MaxSaves, base : 0..MaxSaves, token : Tokens]

\* Whoever dials has read settings.
CfgInv == \A c \in Calls : call[c].at \in {"dial", "store"} => call[c].cfg \in Servers

\* A token that is about to be cached is of the server that was dialled.
OwnInv == \A c \in Calls : call[c].at = "store" => call[c].token.by = call[c].cfg

\* Only a DELETE reads the token on its own.
ApartInv == \A c \in Calls : call[c].at = "token" => call[c].method = "DELETE"

\* Token and address in the cache belong together: they are written together.
CacheInv == cache.token # NoToken => cache.token.by = cache.base

\* Each era has ended with a fault.
EraInv == \A s \in Servers : era[s] <= faults

\* The inductive invariant.
ProxyIInv == ProxyTypeOK /\ CfgInv /\ OwnInv /\ ApartInv /\ CacheInv /\ EraInv /\ TokenFitsServer

\* What the invariants ask of one request.
Fits(r) ==
    /\ r.at \in {"dial", "store"} => r.cfg \in Servers
    /\ r.at = "store" => r.token.by = r.cfg
    /\ r.at = "token" => r.method = "DELETE"
    /\ r.at = "send" /\ r.method # "DELETE" /\ r.token # NoToken => r.token.by = r.base

\* Faults are counted, up to their bound.
Counted == faults' \in 0..MaxFaults /\ faults <= faults' /\ MaxFaults \in Nat

\* Nothing but requests and faults changes.
Else == settings' = settings /\ wrong' = wrong /\ cache' = cache /\ era' = era

\* A proxy that was just made has no token, and a request no settings.
LEMMA InitProxyIInv ==
    ASSUME ConfigAssumption, InitProxy
    PROVE  ProxyIInv
<1>1. NoToken \in Tokens /\ NoToken # Garbage
  BY DEF Tokens, NoToken, Garbage
<1>2. NewCall("GET", "idle") \in CallSet /\ NewCall("GET", "idle").at = "idle"
  BY <1>1 DEF NewCall, CallSet, ConfigAssumption
<1>3. ProxyTypeOK
  BY <1>1, <1>2 DEF InitProxy, ProxyTypeOK, CallSet, ConfigAssumption, Servers
<1>4. \A c \in Calls : call[c].at = "idle"
  BY <1>2 DEF InitProxy
<1>5. EraInv
  BY DEF InitProxy, EraInv
<1> QED BY <1>3, <1>4, <1>5 DEF InitProxy, ProxyIInv, CfgInv, OwnInv, ApartInv, CacheInv, TokenFitsServer, At

\* A step that changes one request, to one of its type that keeps to the
\* invariants, and leaves cache, eras and settings alone.
LEMMA OneCall ==
    ASSUME ProxyIInv, NEW c \in Calls, NEW r \in CallSet,
           call' = [call EXCEPT ![c] = r], Else, Counted, Fits(r)
    PROVE  ProxyIInv'
<1> USE DEF ProxyIInv, Else, Counted, Fits
<1>1. call \in [Calls -> CallSet] /\ call' \in [Calls -> CallSet]
  BY DEF ProxyTypeOK, CallSet
<1>2. ProxyTypeOK'
  BY <1>1 DEF ProxyTypeOK, CallSet
<1>3. \A d \in Calls : call'[d] = IF d = c THEN r ELSE call[d]
  BY <1>1
<1>4. CfgInv' /\ OwnInv' /\ ApartInv' /\ TokenFitsServer'
  BY <1>3 DEF CfgInv, OwnInv, ApartInv, TokenFitsServer, At, Servers
<1>5. CacheInv' /\ EraInv'
  BY DEF CacheInv, EraInv, ProxyTypeOK, Servers
<1> QED BY <1>2, <1>4, <1>5

\* A request that only goes on to another place, and not to one of those where
\* the invariants ask for something.
LEMMA Going ==
    ASSUME ProxyIInv, NEW c \in Calls, Goto(c, "base") \/ Goto(c, "settings") \/ Goto(c, "failed")
                                  \/ Goto(c, "ok") \/ Goto(c, "forget"),
           Else, Counted
    PROVE  ProxyIInv'
<1>1. call \in [Calls -> CallSet]
  BY DEF ProxyIInv, ProxyTypeOK, CallSet
<1>2. PICK a \in {"base", "settings", "failed", "ok", "forget"} :
         call' = [call EXCEPT ![c] = [call[c] EXCEPT !.at = a]]
  BY <1>1 DEF Goto
<1>3. [call[c] EXCEPT !.at = a] \in CallSet /\ [call[c] EXCEPT !.at = a].at = a
  BY <1>1 DEF CallSet
<1>4. Fits([call[c] EXCEPT !.at = a])
  BY <1>3 DEF Fits
<1> HIDE DEF ProxyIInv
<1> QED BY <1>2, <1>3, <1>4, OneCall

\* A request, step by step.
LEMMA RequestIInv ==
    ASSUME ProxyIInv, ConfigAssumption, NEW c \in Calls, Request(c)
    PROVE  ProxyIInv'
<1>1. /\ call \in [Calls -> CallSet] /\ call[c] \in CallSet
      /\ settings \in 0..MaxSaves /\ faults \in 0..MaxFaults /\ MaxFaults \in Nat /\ MaxSaves \in Nat
      /\ cache \in [token : Tokens \ {Garbage}, base : 0..MaxSaves]
  BY DEF ProxyIInv, ProxyTypeOK, CallSet, ConfigAssumption
<1>0. faults' = faults => Counted
  BY <1>1 DEF Counted
<1>2. CASE CheckCache(c)
  <2>1. Else /\ Counted /\ (Goto(c, "base") \/ Goto(c, "settings"))
    BY <1>0, <1>2 DEF CheckCache, Else
  <2> QED BY <2>1, Going
<1>3. CASE GetNacosConfig(c)
  <2> DEFINE r == [call[c] EXCEPT !.cfg = settings, !.at = IF settings = 0 THEN "failed" ELSE "dial"]
  <2>1. call' = [call EXCEPT ![c] = r] /\ Else /\ faults' = faults
    <3>1. call' = [call EXCEPT ![c].cfg = settings,
                               ![c].at = IF settings = 0 THEN "failed" ELSE "dial"]
      BY <1>3 DEF GetNacosConfig
    <3> QED BY <1>1, <1>3, <3>1 DEF GetNacosConfig, Else
  <2>2. r \in CallSet /\ r.cfg = settings /\ r.at = IF settings = 0 THEN "failed" ELSE "dial"
    BY <1>1 DEF CallSet
  <2>3. settings # 0 => settings \in Servers
    BY <1>1 DEF Servers
  <2> HIDE DEF r
  <2>4. Fits(r)
    BY <2>2, <2>3 DEF Fits
  <2> QED BY <1>0, <2>1, <2>2, <2>4, OneCall
<1>4. CASE Dial(c)
  <2>1. Else /\ faults' = faults /\ call[c].cfg \in Servers
    BY <1>4 DEF Dial, At, ProxyIInv, CfgInv, Else
  <2>2. CASE call[c].cfg \in wrong
    <3>1. Goto(c, "failed")
      BY <1>4, <2>2 DEF Dial, Goto
    <3> QED BY <1>0, <2>1, <3>1, Going
  <2>3. CASE call[c].cfg \notin wrong
    <3> DEFINE t == [by |-> call[c].cfg, era |-> era[call[c].cfg]]
               r == [call[c] EXCEPT !.at = "store", !.token = t]
    <3>1. call' = [call EXCEPT ![c] = r]
      BY <1>1, <1>4, <2>3 DEF Dial
    <3>2. t \in Tokens /\ t.by = call[c].cfg
      BY <2>1 DEF Tokens, ProxyIInv, ProxyTypeOK
    <3> HIDE DEF t
    <3>3. r \in CallSet /\ r.at = "store" /\ r.cfg = call[c].cfg /\ r.token = t
      BY <1>1, <3>2 DEF CallSet
    <3> HIDE DEF r
    <3>4. Fits(r)
      BY <2>1, <3>2, <3>3 DEF Fits
    <3> QED BY <1>0, <2>1, <3>1, <3>3, <3>4, OneCall
  <2> QED BY <2>2, <2>3
<1>5. CASE StoreToken(c)
  <2>1. /\ cache' = [token |-> call[c].token, base |-> call[c].cfg]
        /\ call' = [call EXCEPT ![c].at = "base"] /\ UNCHANGED <<settings, wrong, era, faults>>
        /\ call[c].at = "store"
    BY <1>5 DEF StoreToken, Goto, At
  <2>2. call[c].token.by = call[c].cfg /\ call[c].cfg \in Servers
    BY <2>1 DEF ProxyIInv, OwnInv, CfgInv
  <2>3. call[c].token \in Tokens \ {Garbage}
    BY <1>1, <2>2 DEF CallSet, Garbage, Servers
  <2>4. call' \in [Calls -> CallSet] /\ cache' \in [token : Tokens \ {Garbage}, base : 0..MaxSaves]
    BY <1>1, <2>1, <2>3 DEF CallSet
  <2>5. ProxyTypeOK'
    BY <2>1, <2>4 DEF ProxyIInv, ProxyTypeOK, CallSet
  <2>6. CfgInv' /\ OwnInv' /\ ApartInv' /\ TokenFitsServer' /\ EraInv' /\ CacheInv'
    BY <1>1, <2>1, <2>2 DEF ProxyIInv, CfgInv, OwnInv, ApartInv, TokenFitsServer, EraInv, CacheInv, At, CallSet, Servers
  <2> QED BY <2>5, <2>6 DEF ProxyIInv
<1>6. CASE Build(c)
  <2>1. Else /\ faults' = faults
    BY <1>6 DEF Build, Else
  <2>2. CASE call[c].method = "DELETE"
    <3> DEFINE r == [call[c] EXCEPT !.base = cache.base, !.at = "token"]
    <3>1. call' = [call EXCEPT ![c] = r]
      BY <1>1, <1>6, <2>2 DEF Build
    <3>2. r \in CallSet /\ r.at = "token" /\ r.method = "DELETE"
      BY <1>1, <2>2 DEF CallSet
    <3> HIDE DEF r
    <3>4. Fits(r)
      BY <3>2 DEF Fits
    <3> QED BY <1>0, <2>1, <3>1, <3>2, <3>4, OneCall
  <2>3. CASE call[c].method # "DELETE"
    <3> DEFINE r == [call[c] EXCEPT !.base = cache.base, !.token = cache.token, !.at = "send"]
    <3>1. call' = [call EXCEPT ![c] = r]
      BY <1>1, <1>6, <2>3 DEF Build
    <3>2. r \in CallSet /\ r.at = "send" /\ r.token = cache.token /\ r.base = cache.base
      BY <1>1 DEF CallSet
    <3>3. cache.token # NoToken => cache.token.by = cache.base
      BY DEF ProxyIInv, CacheInv
    <3> HIDE DEF r
    <3>4. Fits(r)
      BY <3>2, <3>3 DEF Fits
    <3> QED BY <1>0, <2>1, <3>1, <3>2, <3>4, OneCall
  <2> QED BY <2>2, <2>3
<1>7. CASE ReadToken(c)
  <2>1. PICK t \in {cache.token, Garbage} :
           call' = [call EXCEPT ![c].token = t, ![c].at = "send"]
    BY <1>7 DEF ReadToken
  <2> DEFINE r == [call[c] EXCEPT !.token = t, !.at = "send"]
  <2>2. call' = [call EXCEPT ![c] = r] /\ Else /\ faults' = faults
    BY <1>1, <1>7, <2>1 DEF ReadToken, Else
  <2>3. t \in Tokens
    BY <1>1, <2>1 DEF Tokens
  <2>4. r \in CallSet /\ r.at = "send" /\ r.method = call[c].method
    BY <1>1, <2>3 DEF CallSet
  <2>5. call[c].method = "DELETE"
    BY <1>7 DEF ReadToken, At, ProxyIInv, ApartInv
  <2> HIDE DEF r
  <2>6. Fits(r)
    BY <2>4, <2>5 DEF Fits
  <2> QED BY <1>0, <2>2, <2>4, <2>6, OneCall
<1>8. CASE Send(c)
  <2>1. Else /\ Counted /\ (Goto(c, "failed") \/ Goto(c, "ok") \/ Goto(c, "forget"))
    BY <1>0, <1>8 DEF Send, Else
  <2> QED BY <2>1, Going
<1>9. CASE ForgetToken(c)
  <2>1. /\ cache' = [cache EXCEPT !.token = NoToken]
        /\ call' = [call EXCEPT ![c].at = "failed"] /\ UNCHANGED <<settings, wrong, era, faults>>
    BY <1>9 DEF ForgetToken, Goto
  <2>2. NoToken \in Tokens \ {Garbage} /\ cache'.token = NoToken
    BY <1>1, <2>1 DEF Tokens, NoToken, Garbage
  <2>3. call' \in [Calls -> CallSet] /\ cache' \in [token : Tokens \ {Garbage}, base : 0..MaxSaves]
    BY <1>1, <2>1, <2>2 DEF CallSet
  <2>4. ProxyTypeOK'
    BY <2>1, <2>3 DEF ProxyIInv, ProxyTypeOK, CallSet
  <2>5. CfgInv' /\ OwnInv' /\ ApartInv' /\ TokenFitsServer' /\ EraInv' /\ CacheInv'
    BY <1>1, <2>1, <2>2 DEF ProxyIInv, CfgInv, OwnInv, ApartInv, TokenFitsServer, EraInv, CacheInv, At, CallSet, Servers
  <2> QED BY <2>4, <2>5 DEF ProxyIInv
<1> QED BY <1>2, <1>3, <1>4, <1>5, <1>6, <1>7, <1>8, <1>9 DEF Request

\* Settings that are saved empty the cache; requests keep what they hold.
LEMMA SaveIInv ==
    ASSUME ConfigAssumption, ProxyIInv, NEW rejected \in BOOLEAN, SaveNacosConfig(rejected)
    PROVE  ProxyIInv'
<1>1. ProxyTypeOK /\ settings' \in Servers
  BY DEF ProxyIInv, SaveNacosConfig, ProxyTypeOK, Servers, ConfigAssumption
<1>2. cache'.token = NoToken /\ UNCHANGED <<era, call, faults>>
  BY DEF SaveNacosConfig
<1>3. cache' \in [token : Tokens \ {Garbage}, base : 0..MaxSaves]
  BY DEF SaveNacosConfig, Tokens, NoToken, Garbage, ConfigAssumption
<1>4. settings' \in 0..MaxSaves /\ wrong' \subseteq Servers
  BY <1>1 DEF SaveNacosConfig, ProxyTypeOK, Servers
<1>5. ProxyTypeOK'
  BY <1>1, <1>2, <1>3, <1>4 DEF ProxyTypeOK
<1>6. CfgInv' /\ OwnInv' /\ ApartInv' /\ EraInv' /\ TokenFitsServer' /\ CacheInv'
  BY <1>2 DEF ProxyIInv, CfgInv, OwnInv, ApartInv, EraInv, TokenFitsServer, CacheInv, At
<1> QED BY <1>5, <1>6 DEF ProxyIInv

\* A token expires: by a fault, so that eras stay within their bound.
LEMMA ExpireIInv ==
    ASSUME ConfigAssumption, ProxyIInv, NEW s \in Servers, Expire(s)
    PROVE  ProxyIInv'
<1>1. ProxyTypeOK /\ era[s] \in 0..MaxFaults /\ era[s] <= faults /\ MaxFaults \in Nat
  BY DEF ProxyIInv, ProxyTypeOK, EraInv, ConfigAssumption
<1>2. /\ faults < MaxFaults /\ faults' = faults + 1 /\ era' = [era EXCEPT ![s] = @ + 1]
      /\ UNCHANGED <<settings, wrong, cache, call>>
  BY DEF Expire, Fault
<1>3. era' \in [Servers -> 0..MaxFaults] /\ faults' \in 0..MaxFaults
  BY <1>1, <1>2 DEF ProxyTypeOK
<1>4. EraInv'
  BY <1>1, <1>2 DEF ProxyIInv, EraInv, ProxyTypeOK
<1>5. ProxyTypeOK'
  BY <1>1, <1>2, <1>3 DEF ProxyTypeOK
<1>6. CfgInv' /\ OwnInv' /\ ApartInv' /\ TokenFitsServer' /\ CacheInv'
  BY <1>2 DEF ProxyIInv, CfgInv, OwnInv, ApartInv, TokenFitsServer, CacheInv, At
<1> QED BY <1>4, <1>5, <1>6 DEF ProxyIInv

\* Every step of the proxy keeps the invariant.
LEMMA NextProxyIInv ==
    ASSUME ConfigAssumption, ProxyIInv, [NextProxy]_proxyVars
    PROVE  ProxyIInv'
<1>1. /\ call \in [Calls -> CallSet] /\ faults \in 0..MaxFaults /\ MaxFaults \in Nat
      /\ MaxSaves \in Nat
  BY DEF ProxyIInv, ProxyTypeOK, CallSet, ConfigAssumption
<1>2. ASSUME NEW c \in Calls, NEW m \in Methods[c], Start(c, m) PROVE ProxyIInv'
  <2> DEFINE r == NewCall(m, "login")
  <2>1. call' = [call EXCEPT ![c] = r] /\ Else /\ Counted
    BY <1>1, <1>2 DEF Start, Else, Counted
  <2>2. m \in {"GET", "POST", "DELETE"}
    BY DEF ConfigAssumption
  <2>3. r \in CallSet /\ r.at = "login"
    BY <1>1, <2>2 DEF NewCall, CallSet, Tokens
  <2> HIDE DEF r
  <2>4. Fits(r)
    BY <2>3 DEF Fits
  <2> QED BY <2>1, <2>3, <2>4, OneCall
<1>3. ASSUME NEW c \in Calls, ConnectionFails(c) PROVE ProxyIInv'
  <2>1. Goto(c, "failed") /\ Else /\ Counted
    BY <1>1, <1>3 DEF ConnectionFails, Fault, Else, Counted
  <2> QED BY <2>1, Going
<1>4. CASE \E c \in Calls : Request(c)
  BY <1>4, RequestIInv
<1>5. CASE \E rejected \in BOOLEAN : SaveNacosConfig(rejected)
  BY <1>5, SaveIInv
<1>6. CASE \E s \in Servers : Expire(s)
  BY <1>6, ExpireIInv
<1>7. CASE UNCHANGED proxyVars
  BY <1>7 DEF proxyVars, ProxyIInv, ProxyTypeOK, CfgInv, OwnInv, ApartInv, EraInv, TokenFitsServer, CacheInv, At
<1> QED BY <1>2, <1>3, <1>4, <1>5, <1>6, <1>7 DEF NextProxy

\* The invariant of the proxy holds.
LEMMA InductiveProxy == ASSUME ConfigAssumption PROVE ProxySpec => []ProxyIInv
<1>1. InitProxy => ProxyIInv
  BY InitProxyIInv
<1>2. ProxyIInv /\ [NextProxy]_proxyVars => ProxyIInv'
  BY NextProxyIInv
<1> QED BY <1>1, <1>2, PTL DEF ProxySpec

\* A GET or a POST takes a token only to the server that issued it, whoever logs
\* in and whatever is saved meanwhile: of login, ProxyGet and ProxyPost.
THEOREM TokensFit ==
    ASSUME ConfigAssumption
    PROVE  ProxySpec => []TokenFitsServer
<1>1. ProxyIInv => TokenFitsServer
  BY DEF ProxyIInv
<1> QED BY <1>1, InductiveProxy, PTL

\* Settings, cache and requests keep their types.
LEMMA ProxyTypes ==
    ASSUME ConfigAssumption
    PROVE  ProxySpec => []ProxyTypeOK
<1>1. ProxyIInv => ProxyTypeOK
  BY DEF ProxyIInv
<1> QED BY <1>1, InductiveProxy, PTL
=============================================================================
