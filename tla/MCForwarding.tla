---------------------------- MODULE MCForwarding ----------------------------
(* Small instances of Forwarding: the budgets and the symmetry of its runs.  *)
EXTENDS Forwarding, TLC

\* Budgets: commands of the customer, crashes, stalls, outages.
Allow(commands, crashes, stalls, outages) ==
    [k \in Kinds |-> CASE k = "command" -> commands
                       [] k = "crash" -> crashes
                       [] k = "stall" -> stalls
                       [] k = "outage" -> outages]

Edits == Allow(3, 0, 0, 0)
Troubles == Allow(2, 1, 1, 1)

OneOutage == Allow(1, 0, 0, 1)

AnyWorkerAnyChat ==
    Permutations(Workers) \union Permutations(Chats) \union Permutations(Editors)
=============================================================================
