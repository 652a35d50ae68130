------------------------------ MODULE MCIntake ------------------------------
(* Small instances of Intake: budgets, senders and symmetry of its runs.      *)
EXTENDS Intake, TLC

\* Budgets: commands of the customer, crashes, stalls, outages.
Allow(commands, crashes, stalls, outages) ==
    [k \in Kinds |-> CASE k = "command" -> commands
                       [] k = "crash" -> crashes
                       [] k = "stall" -> stalls
                       [] k = "outage" -> outages]

Troubles == Allow(1, 1, 1, 0)
CrashAndFailure == Allow(0, 1, 0, 1)

\* Every update is one person's, or was posted in a chat.
OneVisitor == [u \in Updates |-> CHOOSE p \in Persons : TRUE]
Posts == [u \in Updates |-> NoPerson]

AnyProcessAnyRun == Permutations(Processes) \union Permutations(Runs)
=============================================================================
