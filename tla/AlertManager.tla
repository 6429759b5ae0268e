---------------------------- MODULE AlertManager ----------------------------
(***************************************************************************)
(* The alert engine of the master: rules and events in the database, the   *)
(* state machine of each rule and target in memory, and the evaluation     *)
(* goroutine.                                                              *)
(*                                                                         *)
(* evaluate reads the rules and takes the snapshot of the targets without  *)
(* a lock, and applies both under am.mu.  The handlers of the API hold     *)
(* am.mu as well, and so run between two passes but not between a pass's   *)
(* reading and its lock.  States are lost with the process; events are not.*)
(*                                                                         *)
(* Only now - FirstTriggerTime is ever used: a state holds its age.  A     *)
(* pass reads the clock once, so no time passes while it applies.          *)
(***************************************************************************)
EXTENDS Integers, Sequences

CONSTANTS
    Rules,      \* rule ids; AUTOINCREMENT gives each once
    Targets,    \* nodes or instances, whichever the rules are about
    Duration,   \* of each rule, in ticks
    MaxAge,     \* ages are counted up to this
    MaxTurns    \* bound: changes of the outside world

\* Of the constants.
AlertAssumption ==
    /\ MaxAge \in Nat /\ MaxTurns \in Nat
    /\ Duration \in [Rules -> 0..MaxAge]

VARIABLES
    rules,    \* rows of sys_alert_rules
    dropped,  \* rules that were deleted
    present,  \* targets that have a row
    hot,      \* rules and targets whose condition holds
    states,   \* am.states: Absent, or the age and the event (0 while pending)
    events,   \* sys_alert_events by id: the state key, and its status or deleted
    eval,     \* the evaluation goroutine
    turns,    \* bound: changes so far
    heat      \* ghost: how long every pass that saw the target has seen it hot

vars == <<rules, dropped, present, hot, states, events, eval, turns, heat>>

Keys   == Rules \X Targets
Absent == [age |-> 0, event |-> -1]
Idle   == [at |-> "idle", rules |-> {}, seen |-> {}, hot |-> {}, todo |-> {}]

Firing(k)  == states[k].event > 0
Pending(k) == states[k].event = 0

TypeOK ==
    /\ rules \subseteq Rules /\ dropped \subseteq Rules /\ rules \cap dropped = {}
    /\ present \subseteq Targets
    /\ hot \subseteq Keys
    /\ states \in [Keys -> [age : 0..MaxAge, event : -1..Len(events)]]
    /\ events \in Seq([key : Keys, status : {"firing", "resolved", "deleted"}])
    /\ eval \in [at : {"idle", "rules", "snapshot", "apply"}, rules : SUBSET Rules,
                 seen : SUBSET Targets, hot : SUBSET Keys, todo : SUBSET Keys]
    /\ turns \in 0..MaxTurns
    /\ heat \in [Keys -> -1..MaxAge]

Init ==
    /\ rules   = {}
    /\ dropped = {}
    /\ present = {}
    /\ hot     = {}
    /\ states  = [k \in Keys |-> Absent]
    /\ events  = <<>>
    /\ eval    = Idle
    /\ turns   = 0
    /\ heat    = [k \in Keys |-> -1]

-----------------------------------------------------------------------------
(***************************************************************************)
(* Handlers of the API, each under am.mu                                   *)
(***************************************************************************)
Unlocked == eval.at # "apply"

AddRule(r) ==
    /\ Unlocked
    /\ r \notin rules \cup dropped
    /\ rules' = rules \cup {r}
    /\ UNCHANGED <<dropped, present, hot, states, events, eval, turns, heat>>

\* Neither the states nor the events of the rule are touched.
DeleteRule(r) ==
    /\ Unlocked
    /\ r \in rules
    /\ rules'   = rules \ {r}
    /\ dropped' = dropped \cup {r}
    /\ UNCHANGED <<present, hot, states, events, eval, turns, heat>>

\* DeleteEvent of one event, ClearEvents of all.
DeleteEvents(S) ==
    /\ Unlocked
    /\ \E e \in S : events[e].status # "deleted"
    /\ events' = [e \in DOMAIN events |->
                    IF e \in S THEN [events[e] EXCEPT !.status = "deleted"] ELSE events[e]]
    /\ UNCHANGED <<rules, dropped, present, hot, states, eval, turns, heat>>

-----------------------------------------------------------------------------
(***************************************************************************)
(* evaluate                                                                *)
(***************************************************************************)

\* GetRules; nothing more happens when there are none.
ReadRules ==
    /\ eval.at = "idle"
    /\ rules # {}
    /\ eval' = [eval EXCEPT !.at = "rules", !.rules = rules]
    /\ UNCHANGED <<rules, dropped, present, hot, states, events, turns, heat>>

\* GetAllNodesMetrics, GetAllInstancesMetrics.
Snapshot ==
    /\ eval.at = "rules"
    /\ eval' = [eval EXCEPT !.at = "snapshot", !.seen = present, !.hot = hot]
    /\ UNCHANGED <<rules, dropped, present, hot, states, events, turns, heat>>

\* am.mu.Lock, and the rules against the targets of the snapshot.
Begin ==
    /\ eval.at = "snapshot"
    /\ eval' = [eval EXCEPT !.at = "apply", !.todo = eval.rules \X eval.seen]
    /\ UNCHANGED <<rules, dropped, present, hot, states, events, turns, heat>>

\* Mutant: a due alert is raised without its state being marked firing.
TriggerUnmarked(k) ==
    /\ k \in eval.hot
    /\ \/ /\ states[k] = Absent
          /\ states' = [states EXCEPT ![k] = [age |-> 0, event |-> 0]]
          /\ UNCHANGED events
       \/ /\ Pending(k) /\ states[k].age >= Duration[k[1]] /\ Len(events) < MaxTurns
          /\ events' = Append(events, [key |-> k, status |-> "firing"])
          /\ UNCHANGED states
       \/ /\ Pending(k) /\ (states[k].age < Duration[k[1]] \/ Len(events) >= MaxTurns)
          /\ UNCHANGED <<states, events>>
    /\ heat' = [heat EXCEPT ![k] = IF @ = -1 THEN 0 ELSE @]

\* handleState, when the condition holds.
Trigger(k) ==
    /\ k \in eval.hot
    /\ \/ /\ states[k] = Absent
          /\ states' = [states EXCEPT ![k] = [age |-> 0, event |-> 0]]
          /\ UNCHANGED events
       \/ /\ Pending(k) /\ states[k].age >= Duration[k[1]]
          /\ events' = Append(events, [key |-> k, status |-> "firing"])
          /\ states' = [states EXCEPT ![k].event = Len(events) + 1]
       \/ /\ Firing(k) \/ (Pending(k) /\ states[k].age < Duration[k[1]])
          /\ UNCHANGED <<states, events>>
    /\ heat' = [heat EXCEPT ![k] = IF @ = -1 THEN 0 ELSE @]

\* resolveAlert: an UPDATE, which does nothing to an event that was deleted.
Resolve(e) ==
    events' = [events EXCEPT ![e].status = IF @ = "firing" THEN "resolved" ELSE @]

\* Mutant: a pending state survives a pass that finds the target well.
RecoverFiring(k) ==
    /\ k \notin eval.hot
    /\ IF Firing(k) THEN Resolve(states[k].event) ELSE UNCHANGED events
    /\ states' = IF Firing(k) THEN [states EXCEPT ![k] = Absent] ELSE states
    /\ heat'   = [heat EXCEPT ![k] = -1]

\* Mutant: the event is closed and the state stays.
RecoverKeep(k) ==
    /\ k \notin eval.hot
    /\ IF Firing(k) THEN Resolve(states[k].event) ELSE UNCHANGED events
    /\ states' = IF Firing(k) THEN states ELSE [states EXCEPT ![k] = Absent]
    /\ heat'   = [heat EXCEPT ![k] = -1]

\* handleState, when it does not hold.
Recover(k) ==
    /\ k \notin eval.hot
    /\ IF Firing(k) THEN Resolve(states[k].event) ELSE UNCHANGED events
    /\ states' = [states EXCEPT ![k] = Absent]
    /\ heat'   = [heat EXCEPT ![k] = -1]

HandleState(k) ==
    /\ eval.at = "apply" /\ k \in eval.todo
    /\ Trigger(k) \/ Recover(k)
    /\ eval' = [eval EXCEPT !.todo = @ \ {k}]
    /\ UNCHANGED <<rules, dropped, present, hot, turns>>

\* Mutant: a pass ends by dropping the states of the targets it did not see.
EndPurging ==
    /\ eval.at = "apply" /\ eval.todo = {}
    /\ eval' = Idle
    /\ states' = [k \in Keys |-> IF k[2] \in eval.seen THEN states[k] ELSE Absent]
    /\ UNCHANGED <<rules, dropped, present, hot, events, turns, heat>>

End ==
    /\ eval.at = "apply" /\ eval.todo = {}
    /\ eval' = Idle
    /\ UNCHANGED <<rules, dropped, present, hot, states, events, turns, heat>>

Evaluate == ReadRules \/ Snapshot \/ Begin \/ (\E k \in Keys : HandleState(k)) \/ End

-----------------------------------------------------------------------------
(***************************************************************************)
(* Time and the world                                                      *)
(***************************************************************************)
\* Mutant: ages are not capped.
OlderFor(n) == n + 1

Older(n) == IF n < MaxAge THEN n + 1 ELSE n

Age ==
    /\ Unlocked
    /\ states' = [k \in Keys |-> IF states[k] = Absent THEN Absent
                                 ELSE [states[k] EXCEPT !.age = Older(@)]]
    /\ heat' = [k \in Keys |-> IF heat[k] = -1 THEN -1 ELSE Older(heat[k])]
    /\ UNCHANGED <<rules, dropped, events, eval, turns>>

Tick == Age /\ UNCHANGED <<present, hot>>

Turn == turns < MaxTurns /\ turns' = turns + 1

\* A target's figures or status change ...
Flip(k) ==
    /\ Turn
    /\ hot' = IF k \in hot THEN hot \ {k} ELSE hot \cup {k}
    /\ UNCHANGED <<rules, dropped, present, states, events, eval, heat>>

\* ... or it is registered, or removed.
ComeOrGo(t) ==
    /\ Turn
    /\ present' = IF t \in present THEN present \ {t} ELSE present \cup {t}
    /\ UNCHANGED <<rules, dropped, hot, states, events, eval, heat>>

\* The master stops and is started again.
Forget ==
    /\ Turn
    /\ states' = [k \in Keys |-> Absent]
    /\ eval'   = Idle
    /\ UNCHANGED <<rules, dropped, events, heat>>

Restart == Forget /\ UNCHANGED <<present, hot>>

-----------------------------------------------------------------------------
Next ==
    \/ \E r \in Rules : AddRule(r) \/ DeleteRule(r)
    \/ \E e \in DOMAIN events : DeleteEvents({e})
    \/ DeleteEvents(DOMAIN events)
    \/ Evaluate
    \/ Tick
    \/ \E k \in Keys : Flip(k)
    \/ \E t \in Targets : ComeOrGo(t)
    \/ Restart

Spec == Init /\ [][Next]_vars

\* The ticker fires for ever, a pass ends, and time goes by: a pass only holds
\* the clock still while it applies, so Tick is enabled again and again.  A pass
\* that raises or closes an alert calls the hub under am.mu, and the hub waits for
\* its browsers (module WsHub): this holds while no browser stalls.
FairSpec == Spec /\ WF_vars(Evaluate) /\ SF_vars(Tick)

-----------------------------------------------------------------------------
(***************************************************************************)
(* Properties                                                              *)
(***************************************************************************)

\* The memory and the table agree: an event a state names is that key's own, no
\* two states name one event, and it is still open unless it was deleted.
StatesNameEvents ==
    \A k \in Keys : Firing(k) =>
        /\ events[states[k].event].key = k
        /\ events[states[k].event].status # "resolved"

\* A pass can still close the event: its rule is read, its target is seen, and
\* the state that names it is there.
Closable(e) ==
    LET k == events[e].key
    IN  events[e].status = "firing" =>
            k[1] \in rules /\ k[2] \in present /\ states[k].event = e

\* How an event comes to stay open with no pass to close it: handleState is not to
\* blame, only a restart, the deletion of the rule, the removal of the target, or
\* either of these after a pass had read it and before that pass raised the alert.
\* All four leave it open for good, unless the target comes back.
NeverForgotten ==
    [][\A e \in DOMAIN events' :
          (e \in DOMAIN events => Closable(e)) /\ ~Closable(e)' =>
              LET k == events'[e].key
              IN  \/ Restart
                  \/ k[1] \in rules \ rules'
                  \/ k[2] \in present \ present'
                  \/ k[1] \in eval.rules \ rules
                  \/ k[2] \in eval.seen \ present]_vars

\* Debouncing: an alert is raised only when every pass that saw the target has
\* found the condition to hold for at least the rule's duration.
Debounced ==
    [][Len(events') > Len(events) =>
          LET k == events'[Len(events')].key IN heat[k] >= Duration[k[1]]]_vars

\* What stays wrong is raised, once the rule and the target are there to stay.
Raised ==
    \A k \in Keys :
        <>[](k[1] \in rules /\ k[2] \in present /\ k \in hot) => <>[]Firing(k)

\* What is well again is settled: the state goes, and the pass that drops it closes
\* the event it names, if it names one; after a restart it names none.
Settled ==
    \A k \in Keys :
        <>[](k[1] \in rules /\ k[2] \in present /\ k \notin hot) => <>[](states[k] = Absent)

\* The state of an alert ends up agreeing with its condition, either way, while no
\* browser holds up the hub that a pass publishes to.
StateFollows == Raised /\ Settled

\* GetActiveEvents is said to list the alerts that have not ended: what is well
\* for ever should leave the list.
ActiveEnds ==
    \A k \in Keys :
        <>[](k[1] \in rules /\ k[2] \in present /\ k \notin hot)
            => <>[](\A e \in DOMAIN events : events[e].key = k => events[e].status # "firing")
=============================================================================
