------------------------------ MODULE LeasedQueue ------------------------------
(***************************************************************************)
(* What a queue of leased rows promises, whoever works on it (ADR-015 of   *)
(* docs/DECISIONS.md): an item waits, is taken, and ends or waits again.   *)
(* What has ended stays ended and is not worked on again, unless the lease *)
(* ran out under a worker that was still at it.                            *)
(***************************************************************************)
CONSTANT Items

VARIABLES
    place,     \* where each item is: "new", "waiting", "taken" or "ended"
    overrun    \* items whose lease ran out under a live worker

queueVars == <<place, overrun>>

QueueInit ==
    /\ place = [i \in Items |-> "new"]
    /\ overrun = {}

Moves(i, from, to) ==
    /\ place[i] = from
    /\ place' = [place EXCEPT ![i] = to]
    /\ UNCHANGED overrun

Put(i) == Moves(i, "new", "waiting")
Take(i) == Moves(i, "waiting", "taken")
Return(i) == Moves(i, "taken", "waiting")
End(i) == Moves(i, "taken", "ended")

Overrun(i) ==
    /\ place[i] = "taken"
    /\ overrun' = overrun \cup {i}
    /\ UNCHANGED place

\* Of two workers on one item each writes what it has come to.
Rewrite(i, to) ==
    /\ i \in overrun
    /\ to \in {"waiting", "ended"}
    /\ place' = [place EXCEPT ![i] = to]
    /\ UNCHANGED overrun

\* A sweep returns every item whose lease has run out.
Sweep(S) ==
    /\ \A i \in S : place[i] = "taken"
    /\ place' = [i \in Items |-> IF i \in S THEN "waiting" ELSE place[i]]
    /\ UNCHANGED overrun

QueueNext ==
    \/ \E i \in Items : Put(i) \/ Take(i) \/ Return(i) \/ End(i) \/ Overrun(i)
    \/ \E i \in Items, to \in {"waiting", "ended"} : Rewrite(i, to)
    \/ \E S \in SUBSET Items : Sweep(S)

QueueSpec == QueueInit /\ [][QueueNext]_queueVars

\* The promise: what has ended stays ended, unless its lease was overrun.
EndsForGood ==
    [][\A i \in Items \ overrun : place[i] = "ended" => place'[i] = "ended"]_queueVars

================================================================================
