---------------------------- MODULE Supervisor ----------------------------
(***************************************************************************)
(* What a worker promises about the services it runs, seen from outside:   *)
(* no pid files, no handlers, no reports.  A service whose calls overlapped *)
(* or were cut short is one the worker no longer vouches for.              *)
(***************************************************************************)

CONSTANT Services

VARIABLE standing    \* of each service

TypeOK == standing \in [Services -> {"absent", "down", "up", "unknown"}]

Init == standing = [s \in Services |-> "absent"]

Become(s, from, to) ==
    /\ standing[s] \in from
    /\ standing' = [standing EXCEPT ![s] = to]

Install(s) == Become(s, {"absent"}, "down")
Start(s)   == Become(s, {"down"}, "up")
End(s)     == Become(s, {"up"}, "down")        \* stopped, or ended by itself
Remove(s)  == Become(s, {"down"}, "absent")

\* A restart of the worker can cut the calls of several services at once.
Forget(T) ==
    /\ T # {}
    /\ standing' = [s \in Services |-> IF s \in T THEN "unknown" ELSE standing[s]]

Next ==
    \/ \E s \in Services : Install(s) \/ Start(s) \/ End(s) \/ Remove(s)
    \/ \E T \in SUBSET Services : Forget(T)

Spec == Init /\ [][Next]_standing
=============================================================================
