------------------------------ MODULE MCServices ------------------------------
(***************************************************************************)
(* Small instances of the services around the delivery of ads and          *)
(* forwards, for what must never happen.  They share no state: a behaviour *)
(* is one of one of them, chosen by the initial state while the others     *)
(* keep still.                                                             *)
(***************************************************************************)
EXTENDS Connections, ControlTasks, Compose, Notifier, Access, Archive, Api, Pacing, Admission

VARIABLE component

\* Control tasks: a synchronisation and another one or a check of the chat, which
\* is one the account has left or a protected channel.
MCCommands ==
    {f \in [Items -> [kind : {"sync_chats", "check_chat_access"}, chat : Chats]] :
        LET k == CHOOSE k \in Items : TRUE IN f[k].kind = "sync_chats"}

Gone == [listed |-> FALSE, left |-> TRUE, banned |-> FALSE, channel |-> FALSE, poster |-> FALSE,
         muted |-> FALSE, admin |-> FALSE, private |-> FALSE, protected |-> FALSE]
Newsfeed == [Gone EXCEPT !.listed = TRUE, !.left = FALSE, !.channel = TRUE, !.protected = TRUE]
MCEntities == {Gone, Newsfeed}

\* Ads: a draft that is complete, one that is sent again and again, one that waits.
Complete == [status |-> "draft", body |-> "short", media |-> FALSE, delay |-> 1, repeat |-> 0,
             start |-> "none", groups |-> {1, 2}]
Recurring == [Complete EXCEPT !.repeat = 2, !.status = "sending"]
LaterAd == [Complete EXCEPT !.start = "later", !.status = "scheduled"]
MCBegun == {Complete, Recurring, LaterAd}

Begin ==
    /\ component \in {"connections", "control tasks", "ads", "alerts", "access", "archive",
                      "requests", "pacing", "admission"}
    /\ ConnInit /\ ControlInit /\ ComposeInit /\ NotifierInit /\ AccessInit
    /\ ArchiveInit /\ ApiInit /\ PacingInit /\ AdmissionInit
    /\ component # "control tasks" =>
           command = (CHOOSE f \in Commands : TRUE) /\ \A c \in Chats : truth[c] = Gone
    /\ component # "ads" => ads[CHOOSE b \in Ads : TRUE] = Complete
    /\ component # "archive" => \A s \in Senders : archiveAds[s] = "default"

Only(c) == component = c /\ UNCHANGED component

Step ==
    \/ /\ Only("connections") /\ ConnNext
       /\ UNCHANGED <<controlVars, composeVars, notifierVars, accessVars, archiveVars,
                      apiVars, pacingVars, admissionVars>>
    \/ /\ Only("control tasks") /\ ControlNext
       /\ UNCHANGED <<connVars, composeVars, notifierVars, accessVars, archiveVars,
                      apiVars, pacingVars, admissionVars>>
    \/ /\ Only("ads") /\ ComposeNext
       /\ UNCHANGED <<connVars, controlVars, notifierVars, accessVars, archiveVars,
                      apiVars, pacingVars, admissionVars>>
    \/ /\ Only("alerts") /\ NotifierNext
       /\ UNCHANGED <<connVars, controlVars, composeVars, accessVars, archiveVars,
                      apiVars, pacingVars, admissionVars>>
    \/ /\ Only("access") /\ AccessNext
       /\ UNCHANGED <<connVars, controlVars, composeVars, notifierVars, archiveVars,
                      apiVars, pacingVars, admissionVars>>
    \/ /\ Only("archive") /\ ArchiveNext
       /\ UNCHANGED <<connVars, controlVars, composeVars, notifierVars, accessVars,
                      apiVars, pacingVars, admissionVars>>
    \/ /\ Only("requests") /\ ApiNext
       /\ UNCHANGED <<connVars, controlVars, composeVars, notifierVars, accessVars,
                      archiveVars, pacingVars, admissionVars>>
    \/ /\ Only("pacing") /\ PacingNext
       /\ UNCHANGED <<connVars, controlVars, composeVars, notifierVars, accessVars,
                      archiveVars, apiVars, admissionVars>>
    \/ /\ Only("admission") /\ AdmissionNext
       /\ UNCHANGED <<connVars, controlVars, composeVars, notifierVars, accessVars,
                      archiveVars, apiVars, pacingVars>>

allVars == <<component, connVars, controlVars, composeVars, notifierVars, accessVars, archiveVars,
             apiVars, pacingVars, admissionVars>>

Behaviours == Begin /\ [][Step]_allVars

\* The type invariants of the modules: the rows, and who holds them.
ServicesTypeOK ==
    /\ ConnTypeOK /\ ControlTypeOK /\ ComposeTypeOK /\ NotifierTypeOK /\ AccessTypeOK
    /\ ArchiveTypeOK /\ ApiTypeOK /\ PacingTypeOK /\ AdmissionTypeOK
===============================================================================
