---------------------------- MODULE MCBroadcast ----------------------------
(* Small instances of Broadcast: the budgets and the symmetry of its runs.    *)
EXTENDS Broadcast, TLC

\* Budgets: commands of the customer, crashes, stalls, outages.
Allow(commands, crashes, stalls, outages) ==
    [k \in Kinds |-> CASE k = "command" -> commands
                       [] k = "crash" -> crashes
                       [] k = "stall" -> stalls
                       [] k = "outage" -> outages]

OneTroubleEach == {Allow(2, 1, 0, 0), Allow(1, 0, 1, 0), Allow(1, 0, 0, 1)}
SendThenStop == {Allow(2, 0, 0, 0)}
SendOnly == {Allow(1, 0, 0, 0)}

AnyWorkerAnyTarget == Permutations(Workers) \union Permutations(Targets)
=============================================================================
