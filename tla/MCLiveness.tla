------------------------------ MODULE MCLiveness ------------------------------
(***************************************************************************)
(* Small instances of the loops that must get somewhere: the delivery of   *)
(* an ad, the health checks, the control tasks and the start of scheduled  *)
(* ads.  They share no state here: a behaviour is one of one of them,      *)
(* chosen by the initial state while the others keep still.                *)
(***************************************************************************)
EXTENDS Broadcast, Connections, ControlTasks, Compose

VARIABLE component

\* Broadcast's budgets: one command of the customer, and a crash or an outage.
SendThenTrouble ==
    {[k \in Kinds |-> IF k \in {"command", trouble} THEN 1 ELSE 0] : trouble \in {"crash", "outage"}}

\* Control tasks: a synchronisation, and another or a disconnection; one chat.
MCCommands ==
    {f \in [Items -> [kind : {"sync_chats", "disconnect"}, chat : Chats]] :
        LET k == CHOOSE k \in Items : TRUE IN f[k].kind = "sync_chats"}

\* What Telegram shows makes no difference to whether a run ends.
Group == [listed |-> TRUE, left |-> FALSE, banned |-> FALSE, channel |-> FALSE, poster |-> FALSE,
          muted |-> FALSE, admin |-> FALSE, private |-> FALSE, protected |-> FALSE]
MCEntities == {Group}

\* Ads: a draft that is complete, or an ad that waits for its start.
Complete == [status |-> "draft", body |-> "short", media |-> FALSE, delay |-> 1, repeat |-> 0,
             start |-> "none", groups |-> {1, 2}]
LaterAd == [Complete EXCEPT !.start = "later", !.status = "scheduled"]
MCBegun == {Complete, LaterAd}

Begin ==
    /\ component \in {"broadcast", "connections", "control tasks", "ads"}
    /\ Init /\ ConnInit /\ ControlInit /\ ComposeInit
    /\ component # "broadcast" => status = [t \in Targets |-> "absent"]
    /\ component # "control tasks" =>
           command = CHOOSE f \in Commands : TRUE
    /\ component # "ads" =>
           ads = [b \in Ads |-> IF b = (CHOOSE a \in Ads : TRUE) THEN Complete ELSE NoAd]

Only(c) == component = c /\ UNCHANGED component

Step ==
    \/ Only("broadcast") /\ Next /\ UNCHANGED <<connVars, controlVars, composeVars>>
    \/ Only("connections") /\ ConnNext /\ UNCHANGED <<vars, controlVars, composeVars>>
    \/ Only("control tasks") /\ ControlNext /\ UNCHANGED <<vars, connVars, composeVars>>
    \/ Only("ads") /\ ComposeNext /\ UNCHANGED <<vars, connVars, controlVars>>

\* What keeps still has nothing to do: fairness asks for none of its steps.
Behaviours ==
    /\ Begin /\ [][Step]_<<component, vars, connVars, controlVars, composeVars>>
    /\ Fairness /\ ConnFairness /\ ControlFairness /\ ComposeFairness
===============================================================================
